---------------------------- MODULE Spec2Model ----------------------------
(***************************************************************************)
(* A model of the release-crawler repository:                              *)
(*   - the bounded-concurrency article fetch of main.go (SpecCrawl);       *)
(*   - the search facade, query compiler and result cache of the search    *)
(*     servers web-server.go / the gin server (SpecSearch, SpecSweep,      *)
(*     SpecCompile).                                                       *)
(* Strings are sequences of one-character strings, so that prefix, suffix  *)
(* and trim are computed as the Go library computes them.                  *)
(***************************************************************************)
EXTENDS Integers, Sequences, FiniteSets, TLC

VARIABLES
    \* ---- main.go: the crawl ----
    articleURLs,   \* the de-duplicated target list: per target, is an id extractable
    mainPc,        \* position of main: "spawn", "wait", "done"
    nextURL,       \* index of the next target the for-loop of main spawns
    wpc,           \* per target, the position of its goroutine
    semaphore,     \* number of tokens in the buffered channel
    wg,            \* WaitGroup counter
    mu,            \* holder of the mutex (NoOne when free)
    articles,      \* the collected result list
    jsonData,      \* per target, what getArticleJSON returned ("none", "ok", "nil")
    calls,         \* per target, number of getArticleJSON calls
    requests,      \* per target, number of HTTP requests sent
    reported,      \* the count printed by main on completion (-1 before)
    \* ---- the query compiler called on its own ----
    cQuery,        \* the query string last compiled
    cFrom,         \* its offset
    cSize,         \* its limit
    cRequest,      \* the request buildEnhancedQuery returned (NoRequest before)
    cAt,           \* the minute of that call and the keys the cache held then
    cPrev,         \* the call before it, when it had the same arguments (NoPrev if not)
    \* ---- the result cache and the search facade ----
    cache,         \* searchCache.cache: key -> [Result, Timestamp]
    now,           \* the clock, in minutes
    rlocked,       \* the calls holding searchCache.mu for reading
    wlocked,       \* the call holding searchCache.mu for writing (NoOne when free)
    crashed,       \* the Go runtime ended the process with a fatal error
    spc,           \* per call slot, the position inside searchElasticsearch
    sargs,         \* per call slot, the arguments (query, from, size)
    found,         \* per call slot, the second result of getCachedResult
    sresp,         \* per call slot, the engine's answer to client.Post
    sresult,       \* per call slot, the SearchResult built from the decoded answer
    sret,          \* per call slot, the values returned to the caller
    \* ---- history of the run, read by the properties only ----
    lastStore,     \* per key, the result and time of the most recent cacheResult
    nBuilt,        \* per call slot, queries compiled during the call
    nPosts,        \* per call slot, requests sent to the engine during the call
    writes,        \* per call slot, the map mutations made during the call
    \* ---- cacheResult called on its own on a large map ----
    prevCache,     \* the map as it was before the most recent cacheResult
    prevKey,       \* the key of the most recent cacheResult
    prevNow,       \* the time of the most recent cacheResult
    \* ---- the HTTP and Slack handlers that call searchElasticsearch ----
    hReq,          \* the request a handler received
    hCall,         \* the call of searchElasticsearch it made (NoCall if none)
    hFetched,      \* for each cache key, the arguments its entry was fetched for
    hRet,          \* what searchElasticsearch returned to the handler
    hResp,         \* the response the handler wrote
    \* ---- the caller of the crawl ----
    stopIssued,    \* the caller has asked the crawl to stop
    \* ---- scrapeFullArticle called on one page ----
    webPage,       \* the page behind the URL: what the selectors match, or a fault
    scraped,       \* what scrapeFullArticle returned (NotScraped before)
    \* ---- the cache key of two searches ----
    kA, kB,        \* the arguments <<query, from, size>> of the two searches
    keyA, keyB     \* the text each key is the md5 of (<<>> before it is formatted)

crawlVars == <<articleURLs, mainPc, nextURL, wpc, semaphore, wg, mu, articles,
               jsonData, calls, requests, reported>>

compileVars == <<cQuery, cFrom, cSize, cRequest, cAt, cPrev>>

cacheVars == <<cache, now, lastStore>>

sweepVars == <<prevCache, prevKey, prevNow>>

searchVars == <<rlocked, wlocked, crashed, spc, sargs, found, sresp, sresult, sret,
                nBuilt, nPosts, writes>>

handlerVars == <<hReq, hCall, hFetched, hRet, hResp>>

\* the state of the parts that are modelled on their own
callerVars == <<stopIssued>>

scrapeVars == <<webPage, scraped>>

keyVars == <<kA, kB, keyA, keyB>>

otherVars == <<handlerVars, callerVars, scrapeVars, keyVars>>

\* the crawl of main.go and the search server
coreVars == <<crawlVars, compileVars, cacheVars, sweepVars, searchVars>>

vars == <<crawlVars, compileVars, cacheVars, sweepVars, searchVars, otherVars>>

nonCrawlVars == <<compileVars, cacheVars, sweepVars, searchVars, otherVars>>

-----------------------------------------------------------------------------
(***************************************************************************)
(* Bounds of the model and constants of the program.                       *)
(***************************************************************************)
NumTargets == 4

maxConcurrency == 3

NoOne == 0

Targets == 1..NumTargets

\* longest query string the compiler is given
MaxQueryLen == 3

-----------------------------------------------------------------------------
(***************************************************************************)
(* main.go: the concurrent fetch, lines 83-113, and getArticleJSON.        *)
(***************************************************************************)

\* A send on the buffered channel blocks while it holds cap(semaphore) tokens.
SemaphoreFull_NoCap == FALSE

SemaphoreFull == semaphore >= maxConcurrency

\* The workers between `semaphore <- struct{}{}` and `<-semaphore`.
InFlight == {w \in Targets : wpc[w] \in {"sleep", "fetch", "lock", "append", "release"}}

CrawlInit ==
    /\ articleURLs \in [Targets -> BOOLEAN]
    /\ mainPc = "spawn"
    /\ nextURL = 1
    /\ wpc = [w \in Targets |-> "idle"]
    /\ semaphore = 0
    /\ wg = 0
    /\ mu = NoOne
    /\ articles = <<>>
    /\ jsonData = [w \in Targets |-> "none"]
    /\ calls = [w \in Targets |-> 0]
    /\ requests = [w \in Targets |-> 0]
    /\ reported = -1

CrawlIdle ==
    /\ articleURLs = [w \in Targets |-> TRUE]
    /\ mainPc = "spawn"
    /\ nextURL = 1
    /\ wpc = [w \in Targets |-> "idle"]
    /\ semaphore = 0
    /\ wg = 0
    /\ mu = NoOne
    /\ articles = <<>>
    /\ jsonData = [w \in Targets |-> "none"]
    /\ calls = [w \in Targets |-> 0]
    /\ requests = [w \in Targets |-> 0]
    /\ reported = -1

\* for _, articleURL := range articleURLs { wg.Add(1); go func(url) {...}(articleURL) }
Spawn ==
    /\ mainPc = "spawn"
    /\ nextURL <= NumTargets
    /\ wg' = wg + 1
    /\ wpc' = [wpc EXCEPT ![nextURL] = "acquire"]
    /\ nextURL' = nextURL + 1
    /\ UNCHANGED <<articleURLs, mainPc, semaphore, mu, articles, jsonData, calls,
                   requests, reported, nonCrawlVars>>

\* the range loop is exhausted: main reaches wg.Wait()
EndSpawn ==
    /\ mainPc = "spawn"
    /\ nextURL > NumTargets
    /\ mainPc' = "wait"
    /\ UNCHANGED <<articleURLs, nextURL, wpc, semaphore, wg, mu, articles, jsonData,
                   calls, requests, reported, nonCrawlVars>>

\* semaphore <- struct{}{}
Acquire(w) ==
    /\ wpc[w] = "acquire"
    /\ ~SemaphoreFull
    /\ semaphore' = semaphore + 1
    /\ wpc' = [wpc EXCEPT ![w] = "sleep"]
    /\ UNCHANGED <<articleURLs, mainPc, nextURL, wg, mu, articles, jsonData, calls,
                   requests, reported, nonCrawlVars>>

\* time.Sleep(500 * time.Millisecond)
Sleep(w) ==
    /\ wpc[w] = "sleep"
    /\ wpc' = [wpc EXCEPT ![w] = "fetch"]
    /\ UNCHANGED <<articleURLs, mainPc, nextURL, semaphore, wg, mu, articles, jsonData,
                   calls, requests, reported, nonCrawlVars>>

\* the retry budget of a fetch: the worker calls getArticleJSON once, outside any loop
maxAttempts == 0

\* a failed fetch is tried once more
getArticleJSON_Retry(w, ok) ==
    /\ wpc[w] = "fetch"
    /\ calls[w] <= maxAttempts + 1
    /\ calls' = [calls EXCEPT ![w] = @ + 1]
    /\ IF ~articleURLs[w]
         THEN /\ jsonData' = [jsonData EXCEPT ![w] = "nil"]
              /\ requests' = requests
         ELSE /\ jsonData' = [jsonData EXCEPT ![w] = IF ok THEN "ok" ELSE "nil"]
              /\ requests' = [requests EXCEPT ![w] = @ + 1]
    /\ wpc' = [wpc EXCEPT ![w] = IF jsonData'[w] = "ok" THEN "lock" ELSE "fetch"]
    /\ UNCHANGED <<articleURLs, mainPc, nextURL, semaphore, wg, mu, articles, reported,
                   nonCrawlVars>>

\* the request is sent whether or not an id was found
getArticleJSON_NoIdCheck(w, ok) ==
    /\ wpc[w] = "fetch"
    /\ calls' = [calls EXCEPT ![w] = @ + 1]
    /\ jsonData' = [jsonData EXCEPT ![w] = IF ok THEN "ok" ELSE "nil"]
    /\ requests' = [requests EXCEPT ![w] = @ + 1]
    /\ wpc' = [wpc EXCEPT ![w] = IF jsonData'[w] = "ok" THEN "lock" ELSE "release"]
    /\ UNCHANGED <<articleURLs, mainPc, nextURL, semaphore, wg, mu, articles, reported,
                   nonCrawlVars>>

\* getArticleJSON(url): nil when no id can be extracted (no request is sent),
\* nil on a transport error, a non-200 status or a decode error, else the article.
getArticleJSON(w, ok) ==
    /\ wpc[w] = "fetch"
    /\ calls' = [calls EXCEPT ![w] = @ + 1]
    /\ IF ~articleURLs[w]
         THEN /\ jsonData' = [jsonData EXCEPT ![w] = "nil"]
              /\ requests' = requests
         ELSE /\ jsonData' = [jsonData EXCEPT ![w] = IF ok THEN "ok" ELSE "nil"]
              /\ requests' = [requests EXCEPT ![w] = @ + 1]
    /\ wpc' = [wpc EXCEPT ![w] = IF jsonData'[w] = "ok" THEN "lock" ELSE "release"]
    /\ UNCHANGED <<articleURLs, mainPc, nextURL, semaphore, wg, mu, articles, reported,
                   nonCrawlVars>>

\* mu.Lock()
Lock(w) ==
    /\ wpc[w] = "lock"
    /\ mu = NoOne
    /\ mu' = w
    /\ wpc' = [wpc EXCEPT ![w] = "append"]
    /\ UNCHANGED <<articleURLs, mainPc, nextURL, semaphore, wg, articles, jsonData,
                   calls, requests, reported, nonCrawlVars>>

\* the append that writes over the record appended last
AppendArticle_Overwrite(w) ==
    /\ wpc[w] = "append"
    /\ mu = w
    /\ articles' = IF articles = <<>> THEN <<w>>
                   ELSE [articles EXCEPT ![Len(articles)] = w]
    /\ mu' = NoOne
    /\ wpc' = [wpc EXCEPT ![w] = "release"]
    /\ UNCHANGED <<articleURLs, mainPc, nextURL, semaphore, wg, jsonData, calls,
                   requests, reported, nonCrawlVars>>

\* articles = append(articles, *jsonData); mu.Unlock()
AppendArticle(w) ==
    /\ wpc[w] = "append"
    /\ mu = w
    /\ articles' = Append(articles, w)
    /\ mu' = NoOne
    /\ wpc' = [wpc EXCEPT ![w] = "release"]
    /\ UNCHANGED <<articleURLs, mainPc, nextURL, semaphore, wg, jsonData, calls,
                   requests, reported, nonCrawlVars>>

\* the worker ends without taking its token back out of the channel
Release_Keep(w) ==
    /\ wpc[w] = "release"
    /\ wpc' = [wpc EXCEPT ![w] = "wgdone"]
    /\ UNCHANGED <<articleURLs, mainPc, nextURL, semaphore, wg, mu, articles, jsonData,
                   calls, requests, reported, nonCrawlVars>>

\* deferred last, so run first: <-semaphore
Release(w) ==
    /\ wpc[w] = "release"
    /\ semaphore > 0
    /\ semaphore' = semaphore - 1
    /\ wpc' = [wpc EXCEPT ![w] = "wgdone"]
    /\ UNCHANGED <<articleURLs, mainPc, nextURL, wg, mu, articles, jsonData, calls,
                   requests, reported, nonCrawlVars>>

\* deferred first, so run last: wg.Done()
WgDone(w) ==
    /\ wpc[w] = "wgdone"
    /\ wg' = wg - 1
    /\ wpc' = [wpc EXCEPT ![w] = "done"]
    /\ UNCHANGED <<articleURLs, mainPc, nextURL, semaphore, mu, articles, jsonData,
                   calls, requests, reported, nonCrawlVars>>

\* main does not wait for the workers
WaitDone_NoWait ==
    /\ mainPc = "wait"
    /\ mainPc' = "done"
    /\ reported' = Len(articles)
    /\ UNCHANGED <<articleURLs, nextURL, wpc, semaphore, wg, mu, articles, jsonData,
                   calls, requests, nonCrawlVars>>

\* wg.Wait() returns; main prints len(articles)
WaitDone ==
    /\ mainPc = "wait"
    /\ wg = 0
    /\ mainPc' = "done"
    /\ reported' = Len(articles)
    /\ UNCHANGED <<articleURLs, nextURL, wpc, semaphore, wg, mu, articles, jsonData,
                   calls, requests, nonCrawlVars>>

\* The caller asks the running crawl to stop.  The crawl takes no context, channel
\* or flag and installs no signal handler: nothing in it reads the request.
IssueStop ==
    /\ ~stopIssued
    /\ mainPc # "done"
    /\ stopIssued' = TRUE
    /\ UNCHANGED <<compileVars, cacheVars, sweepVars, searchVars, handlerVars, scrapeVars,
                   keyVars, crawlVars>>

CrawlNext ==
    \/ Spawn
    \/ EndSpawn
    \/ \E w \in Targets : Acquire(w)
    \/ \E w \in Targets : Sleep(w)
    \/ \E w \in Targets, ok \in BOOLEAN : getArticleJSON(w, ok)
    \/ \E w \in Targets : Lock(w)
    \/ \E w \in Targets : AppendArticle(w)
    \/ \E w \in Targets : Release(w)
    \/ \E w \in Targets : WgDone(w)
    \/ WaitDone

\* the crawl with a caller that may ask it to stop
StopNext ==
    \/ CrawlNext
    \/ IssueStop

-----------------------------------------------------------------------------
(***************************************************************************)
(* Strings, as the Go strings and fmt packages compute on them.            *)
(***************************************************************************)
Quote == "\""

\* the characters a query is made of
QueryChars == {Quote, "a", " "}

RECURSIVE StringsUpTo(_)
StringsUpTo(n) ==
    IF n = 0 THEN {<<>>}
    ELSE LET shorter == StringsUpTo(n - 1)
         IN  shorter \cup {Append(s, c) : s \in {x \in shorter : Len(x) = n - 1},
                                          c \in QueryChars}

\* strings.HasPrefix(s, prefix)
HasPrefix(s, prefix) ==
    Len(s) >= Len(prefix) /\ SubSeq(s, 1, Len(prefix)) = prefix

\* strings.HasSuffix(s, suffix)
HasSuffix(s, suffix) ==
    Len(s) >= Len(suffix) /\ SubSeq(s, Len(s) - Len(suffix) + 1, Len(s)) = suffix

\* strings.TrimLeft(s, cutset) for a one-character cutset
RECURSIVE TrimLeft(_, _)
TrimLeft(s, c) ==
    IF s # <<>> /\ Head(s) = c THEN TrimLeft(Tail(s), c) ELSE s

\* strings.TrimRight(s, cutset) for a one-character cutset
RECURSIVE TrimRight(_, _)
TrimRight(s, c) ==
    IF s # <<>> /\ s[Len(s)] = c THEN TrimRight(SubSeq(s, 1, Len(s) - 1), c) ELSE s

\* strings.Trim(s, cutset): every leading and trailing cutset character is removed
Trim(s, c) == TrimRight(TrimLeft(s, c), c)

DigitChar(d) == <<"0", "1", "2", "3", "4", "5", "6", "7", "8", "9">>[d + 1]

RECURSIVE NatDigits(_)
NatDigits(n) ==
    IF n < 10 THEN <<DigitChar(n)>> ELSE Append(NatDigits(n \div 10), DigitChar(n % 10))

\* the verb %d of fmt.Sprintf
FormatInt(n) == IF n < 0 THEN <<"-">> \o NatDigits(-n) ELSE NatDigits(n)

-----------------------------------------------------------------------------
(***************************************************************************)
(* The query compiler: buildEnhancedQuery and buildPhraseQuery.  A request *)
(* is the map the Go code builds, as nested records; a sort clause is the  *)
(* pair <<field, order>> and a decimal literal is kept as its text.        *)
(***************************************************************************)
NoRequest == [none |-> TRUE]

\* no earlier call with the same arguments
NoPrev == [request |-> NoRequest, at |-> [minute |-> 0, keys |-> {}]]

\* map[string]interface{}{}
EmptyMap == <<>>

\* a limit that is not positive is replaced by the default page size
buildPhraseQuery_Defaulted(query, from, size) ==
    [ query |-> [ multi_match |-> [ query  |-> query,
                                    fields |-> <<"title^3", "body^1">>,
                                    type   |-> "phrase" ] ],
      from  |-> from,
      size  |-> IF size <= 0 THEN 10 ELSE size,
      sort  |-> << <<"_score", "desc">>, <<"updated_at", "desc">> >>,
      highlight |-> [ fields    |-> [ title |-> EmptyMap, body |-> EmptyMap ],
                      pre_tags  |-> <<"<mark>">>,
                      post_tags |-> <<"</mark>">> ] ]

buildPhraseQuery(query, from, size) ==
    [ query |-> [ multi_match |-> [ query  |-> query,
                                    fields |-> <<"title^3", "body^1">>,
                                    type   |-> "phrase" ] ],
      from  |-> from,
      size  |-> size,
      sort  |-> << <<"_score", "desc">>, <<"updated_at", "desc">> >>,
      highlight |-> [ fields    |-> [ title |-> EmptyMap, body |-> EmptyMap ],
                      pre_tags  |-> <<"<mark>">>,
                      post_tags |-> <<"</mark>">> ] ]

\* isPhrase := strings.HasPrefix(query, "\"") && strings.HasSuffix(query, "\"")
isPhrase(query) == HasPrefix(query, <<Quote>>) /\ HasSuffix(query, <<Quote>>)

\* the request carries the minute it was compiled in
buildEnhancedQuery_Dated(query, from, size) ==
    [buildPhraseQuery(query, from, size) EXCEPT !.sort = Append(@, <<"compiled_at", now>>)]

buildEnhancedQuery(query, from, size) ==
    IF isPhrase(query)
    THEN buildPhraseQuery(Trim(query, Quote), from, size)
    ELSE
    [ query |->
        [ function_score |->
            [ query |->
                [ bool |->
                    [ should |->
                        << [ multi_match |-> [ query  |-> query,
                                               fields |-> <<"title^5", "body^2">>,
                                               type   |-> "phrase",
                                               boost  |-> 10 ] ],
                           [ multi_match |-> [ query     |-> query,
                                               fields    |-> <<"title^3", "body^1">>,
                                               fuzziness |-> "AUTO",
                                               boost     |-> 5 ] ],
                           [ multi_match |-> [ query  |-> query,
                                               fields |-> <<"title^2", "body^1">>,
                                               type   |-> "phrase_prefix",
                                               boost  |-> 3 ] ] >>,
                      minimum_should_match |-> 1 ] ],
              boost_mode |-> "multiply",
              functions |-> << [ gauss  |-> [ updated_at |-> [ scale |-> "30d",
                                                               decay |-> "0.5" ] ],
                                 weight |-> "1.2" ] >> ] ],
      from  |-> from,
      size  |-> size,
      sort  |-> << <<"_score", "desc">> >>,
      highlight |-> [ fields    |-> [ title |-> [fragment_size |-> 150],
                                      body  |-> [fragment_size |-> 300] ],
                      pre_tags  |-> <<"<mark>">>,
                      post_tags |-> <<"</mark>">> ] ]

\* the offsets and limits the compiler is called with: negative, zero, a usual
\* page and the largest 32-bit value
PageValues == {-1, 0, 10, 2147483647}

CompileIdle ==
    /\ cQuery = <<>>
    /\ cFrom = 0
    /\ cSize = 0
    /\ cRequest = NoRequest
    /\ cAt = [minute |-> 0, keys |-> {}]
    /\ cPrev = NoPrev

\* one call of the compiler on its own
Compile(q, from, size) ==
    /\ cQuery' = q
    /\ cFrom' = from
    /\ cSize' = size
    /\ cRequest' = buildEnhancedQuery(q, from, size)
    /\ cAt' = [minute |-> now, keys |-> DOMAIN cache]
    /\ cPrev' = IF cRequest # NoRequest /\ <<q, from, size>> = <<cQuery, cFrom, cSize>>
                THEN [request |-> cRequest, at |-> cAt]
                ELSE NoPrev
    /\ UNCHANGED <<crawlVars, otherVars, cacheVars, sweepVars, searchVars>>

CompileNext ==
    \E q \in StringsUpTo(MaxQueryLen), from \in PageValues, size \in PageValues :
        Compile(q, from, size)

-----------------------------------------------------------------------------
(***************************************************************************)
(* The result cache: getCachedResult and cacheResult on the map, without   *)
(* the lock.  A SearchResult is [Articles, Total]; an article is its id.   *)
(***************************************************************************)
\* 5*time.Minute, in minutes
CacheTTL == 5

\* len(searchCache.cache) > 1000
SweepThreshold == 1000

\* last minute of the clock
MaxTime == 6

NoEntries == [k \in {} |-> 0]

\* md5.Sum rendered with %x: a fingerprint, taken to be free of collisions, so
\* it is the tagged text it was computed from
Md5Hex(text) == <<"md5:">> \o text

\* the key text with nothing between its parts
KeyText_NoSeparator(query, from, size) == query \o FormatInt(from) \o FormatInt(size)

\* fmt.Sprintf("%s-%d-%d", query, from, size)
KeyText(query, from, size) ==
    query \o <<"-">> \o FormatInt(from) \o <<"-">> \o FormatInt(size)

\* the key text, then md5 and %x
CacheKey(query, from, size) == Md5Hex(KeyText(query, from, size))

KeyOf(a) == CacheKey(a[1], a[2], a[3])

\* time.Since(entry.Timestamp) > 5*time.Minute
Expired_AtTTL(entry, t) == t - entry.Timestamp >= CacheTTL

Expired(entry, t) == t - entry.Timestamp > CacheTTL

\* delete(searchCache.cache, key)
RemoveKey_Keep(c, key) == c

RemoveKey(c, key) == [k \in DOMAIN c \ {key} |-> c[k]]

\* the body of getCachedResult: what it returns, and whether it deletes the entry
CachedLookup(c, key, t) ==
    IF key \notin DOMAIN c
    THEN [found |-> FALSE, Result |-> [Articles |-> <<>>, Total |-> 0], delete |-> FALSE]
    ELSE IF Expired(c[key], t)
    THEN [found |-> FALSE, Result |-> [Articles |-> <<>>, Total |-> 0], delete |-> TRUE]
    ELSE [found |-> TRUE, Result |-> c[key].Result, delete |-> FALSE]

\* the sweep of cacheResult: for k, v := range cache { if expired { delete(cache, k) } }
SweepExpired_All(c, t) == NoEntries

SweepExpired(c, t) == [k \in {x \in DOMAIN c : ~Expired(c[x], t)} |-> c[k]]

\* the store that keeps the timestamp of the entry it replaces
cacheResult_KeepStamp(c, key, result, t) ==
    LET swept == IF Cardinality(DOMAIN c) > SweepThreshold THEN SweepExpired(c, t) ELSE c
    IN  [k \in DOMAIN swept \cup {key} |->
            IF k = key
            THEN [Result |-> result,
                  Timestamp |-> IF key \in DOMAIN swept THEN swept[key].Timestamp ELSE t]
            ELSE swept[k]]

\* the store that sweeps a map of SweepThreshold entries too
cacheResult_AtThreshold(c, key, result, t) ==
    LET swept == IF Cardinality(DOMAIN c) >= SweepThreshold THEN SweepExpired(c, t) ELSE c
    IN  [k \in DOMAIN swept \cup {key} |->
            IF k = key THEN [Result |-> result, Timestamp |-> t] ELSE swept[k]]

\* the body of cacheResult: the map after the call
cacheResult(c, key, result, t) ==
    LET swept == IF Cardinality(DOMAIN c) > SweepThreshold THEN SweepExpired(c, t) ELSE c
    IN  [k \in DOMAIN swept \cup {key} |->
            IF k = key THEN [Result |-> result, Timestamp |-> t] ELSE swept[k]]

\* the passage of one minute
Tick ==
    /\ now < MaxTime
    /\ now' = now + 1
    /\ UNCHANGED <<cache, lastStore, sweepVars, crawlVars, otherVars, compileVars,
                   searchVars>>

-----------------------------------------------------------------------------
(***************************************************************************)
(* The search facade: searchElasticsearch, called concurrently by the HTTP *)
(* handlers.  Each call slot runs one call at a time.                      *)
(***************************************************************************)
\* the handler goroutines that call searchElasticsearch concurrently
CallSlots == {1, 2}

\* the (query, from, size) the handlers call the facade with
SearchArgs == { << <<"a">>, 0, 10 >>, << <<Quote, "a", Quote>>, 0, 10 >> }

NoArgs == << <<>>, 0, 0 >>

Hit(id) == [Source |-> id, Score |-> 1]

NoBody == [kind |-> "none", hits |-> <<>>, total |-> 0]

\* what the engine may answer: no answer at all (connection refused, timeout),
\* a 200 with a search response, a non-success status with the engine's JSON
\* error object, or either status with a body that is not JSON
EngineAnswers ==
    { [kind |-> "transport", status |-> 0, body |-> NoBody],
      [kind |-> "http", status |-> 200,
       body |-> [kind |-> "search", hits |-> <<Hit(1), Hit(2)>>, total |-> 7]],
      [kind |-> "http", status |-> 200,
       body |-> [kind |-> "search", hits |-> <<Hit(2), Hit(1)>>, total |-> 2]],
      [kind |-> "http", status |-> 200, body |-> [kind |-> "html", hits |-> <<>>, total |-> 0]],
      [kind |-> "http", status |-> 503, body |-> [kind |-> "error", hits |-> <<>>, total |-> 0]],
      [kind |-> "http", status |-> 503, body |-> [kind |-> "html", hits |-> <<>>, total |-> 0]] }

NoAnswer == [kind |-> "none", status |-> 0, body |-> NoBody]

\* json.NewDecoder(resp.Body).Decode(&searchResp): an error when the body is not
\* JSON; a JSON object without "hits" leaves searchResp at its zero value
Decode(body) ==
    CASE body.kind = "search" -> [err |-> FALSE, hits |-> body.hits, total |-> body.total]
      [] body.kind = "error"  -> [err |-> FALSE, hits |-> <<>>, total |-> 0]
      [] OTHER                -> [err |-> TRUE, hits |-> <<>>, total |-> 0]

\* for _, hit := range searchResp.Hits.Hits { articles = append(articles, hit.Source) }
SourcesOf_Reversed(hits) == [i \in 1..Len(hits) |-> hits[Len(hits) + 1 - i].Source]

SourcesOf(hits) == [i \in 1..Len(hits) |-> hits[i].Source]

\* the error searchElasticsearch returns for an engine answer ("nil" for none):
\* client.Post fails, or Decode fails; resp.StatusCode is not looked at
EngineError_Ignored(ans) == "nil"

EngineError(ans) ==
    IF ans.kind = "transport" THEN "transport"
    ELSE IF Decode(ans.body).err THEN "decode"
    ELSE "nil"

\* if cachedResult, found := getCachedResult(cacheKey); found { return ... }
AfterLookup_NoReturn(isFound) == "engine"

AfterLookup(isFound) == IF isFound THEN "return" ELSE "engine"

NoResult == [Articles |-> <<>>, Total |-> 0]

NoReturn == [Articles |-> <<>>, Total |-> 0, err |-> "none"]

CacheInit ==
    /\ cache = NoEntries
    /\ now = 0
    /\ lastStore = NoEntries

CallsIdle ==
    /\ rlocked = {}
    /\ wlocked = NoOne
    /\ crashed = FALSE
    /\ spc = [t \in CallSlots |-> "idle"]
    /\ sargs = [t \in CallSlots |-> NoArgs]
    /\ found = [t \in CallSlots |-> FALSE]
    /\ sresp = [t \in CallSlots |-> NoAnswer]
    /\ sresult = [t \in CallSlots |-> NoResult]
    /\ sret = [t \in CallSlots |-> NoReturn]
    /\ nBuilt = [t \in CallSlots |-> 0]
    /\ nPosts = [t \in CallSlots |-> 0]
    /\ writes = [t \in CallSlots |-> {}]

SweepIdle ==
    /\ prevCache = NoEntries
    /\ prevKey = <<>>
    /\ prevNow = 0

\* a handler calls searchElasticsearch(query, from, size)
Search(t, a) ==
    /\ ~crashed
    /\ spc[t] = "idle"
    /\ spc' = [spc EXCEPT ![t] = "rlock"]
    /\ sargs' = [sargs EXCEPT ![t] = a]
    /\ UNCHANGED <<cache, now, lastStore, rlocked, wlocked, crashed, found, sresp,
                   sresult, sret, nBuilt, nPosts, writes, sweepVars, crawlVars, otherVars,
                   compileVars>>

\* getCachedResult: searchCache.mu.RLock()
RLock(t) ==
    /\ ~crashed
    /\ spc[t] = "rlock"
    /\ wlocked = NoOne
    /\ rlocked' = rlocked \cup {t}
    /\ spc' = [spc EXCEPT ![t] = "lookup"]
    /\ UNCHANGED <<cache, now, lastStore, wlocked, crashed, sargs, found, sresp, sresult,
                   sret, nBuilt, nPosts, writes, sweepVars, crawlVars, otherVars,
                   compileVars>>

\* getCachedResult: entry, exists := searchCache.cache[key] and the expiry test.
\* A miss or a hit returns (the deferred RUnlock runs); an expired entry leaves
\* the call before its delete, still holding the read lock.
LookupEntry(t) ==
    /\ ~crashed
    /\ spc[t] = "lookup"
    /\ LET r == CachedLookup(cache, KeyOf(sargs[t]), now)
       IN  /\ found' = [found EXCEPT ![t] = r.found]
           /\ IF r.delete
                THEN /\ spc' = [spc EXCEPT ![t] = "delete"]
                     /\ UNCHANGED <<rlocked, sret>>
                ELSE /\ spc' = [spc EXCEPT ![t] = AfterLookup(r.found)]
                     /\ rlocked' = rlocked \ {t}
                     /\ sret' = [sret EXCEPT ![t] =
                                   IF AfterLookup(r.found) = "return"
                                   THEN [Articles |-> r.Result.Articles,
                                         Total |-> r.Result.Total, err |-> "nil"]
                                   ELSE @]
    /\ UNCHANGED <<cache, now, lastStore, wlocked, crashed, sargs, sresp, sresult,
                   nBuilt, nPosts, writes, sweepVars, crawlVars, otherVars, compileVars>>

\* getCachedResult: delete(searchCache.cache, key) under the read lock, then the
\* deferred RUnlock
DeleteExpired(t) ==
    /\ ~crashed
    /\ spc[t] = "delete"
    /\ LET key == KeyOf(sargs[t])
       IN  /\ cache' = RemoveKey(cache, key)
           /\ writes' = [writes EXCEPT ![t] = @ \cup
                  {[op |-> "delete", key |-> k, age |-> now - cache[k].Timestamp] :
                      k \in DOMAIN cache \ DOMAIN cache'}]
    /\ rlocked' = rlocked \ {t}
    /\ spc' = [spc EXCEPT ![t] = AfterLookup(FALSE)]
    /\ UNCHANGED <<now, lastStore, wlocked, crashed, sargs, found, sresp, sresult, sret,
                   nBuilt, nPosts, sweepVars, crawlVars, otherVars, compileVars>>

\* The delete of one call runs while another call holding the read lock reads or
\* deletes in the same map: the Go runtime may detect it and end the process
\* ("fatal error: concurrent map read and map write" / "concurrent map writes").
ConcurrentMapFatal(t) ==
    /\ ~crashed
    /\ spc[t] = "delete"
    /\ \E u \in CallSlots \ {t} : spc[u] \in {"lookup", "delete"}
    /\ crashed' = TRUE
    /\ UNCHANGED <<cache, now, lastStore, rlocked, wlocked, spc, sargs, found, sresp,
                   sresult, sret, nBuilt, nPosts, writes, sweepVars, crawlVars, otherVars,
                   compileVars>>

\* buildEnhancedQuery, json.Marshal (which cannot fail on this map), client.Post
\* and Decode: one request, and either an error returned or the result built
EngineCall(t, ans) ==
    /\ ~crashed
    /\ spc[t] = "engine"
    /\ buildEnhancedQuery(sargs[t][1], sargs[t][2], sargs[t][3]) # NoRequest
    /\ nBuilt' = [nBuilt EXCEPT ![t] = @ + 1]
    /\ nPosts' = [nPosts EXCEPT ![t] = @ + 1]
    /\ sresp' = [sresp EXCEPT ![t] = ans]
    /\ IF EngineError(ans) # "nil"
         THEN /\ sret' = [sret EXCEPT ![t] =
                            [Articles |-> <<>>, Total |-> 0, err |-> EngineError(ans)]]
              /\ spc' = [spc EXCEPT ![t] = "return"]
              /\ UNCHANGED sresult
         ELSE /\ sresult' = [sresult EXCEPT ![t] =
                               [Articles |-> SourcesOf(Decode(ans.body).hits),
                                Total |-> Decode(ans.body).total]]
              /\ spc' = [spc EXCEPT ![t] = "wlock"]
              /\ UNCHANGED sret
    /\ UNCHANGED <<cache, now, lastStore, rlocked, wlocked, crashed, sargs, found,
                   writes, sweepVars, crawlVars, otherVars, compileVars>>

\* cacheResult: searchCache.mu.Lock()
WLock(t) ==
    /\ ~crashed
    /\ spc[t] = "wlock"
    /\ wlocked = NoOne
    /\ rlocked = {}
    /\ wlocked' = t
    /\ spc' = [spc EXCEPT ![t] = "store"]
    /\ UNCHANGED <<cache, now, lastStore, rlocked, crashed, sargs, found, sresp, sresult,
                   sret, nBuilt, nPosts, writes, sweepVars, crawlVars, otherVars,
                   compileVars>>

\* cacheResult: the sweep, the insert and the deferred Unlock; then
\* return articles, searchResp.Hits.Total.Value, nil
StoreResult(t) ==
    /\ ~crashed
    /\ spc[t] = "store"
    /\ wlocked = t
    /\ LET key == KeyOf(sargs[t])
           new == cacheResult(cache, key, sresult[t], now)
       IN  /\ cache' = new
           /\ lastStore' = [k \in DOMAIN lastStore \cup {key} |->
                              IF k = key THEN [Result |-> sresult[t], Timestamp |-> now]
                              ELSE lastStore[k]]
           /\ writes' = [writes EXCEPT ![t] = @ \cup
                  {[op |-> "insert", key |-> key, age |-> 0]} \cup
                  {[op |-> "sweep", key |-> k, age |-> now - cache[k].Timestamp] :
                      k \in DOMAIN cache \ DOMAIN new}]
    /\ wlocked' = NoOne
    /\ sret' = [sret EXCEPT ![t] =
                  [Articles |-> sresult[t].Articles, Total |-> sresult[t].Total,
                   err |-> "nil"]]
    /\ spc' = [spc EXCEPT ![t] = "return"]
    /\ UNCHANGED <<now, rlocked, crashed, sargs, found, sresp, sresult, nBuilt, nPosts,
                   sweepVars, crawlVars, otherVars, compileVars>>

\* the caller has taken the returned values: the locals of the call are gone and
\* the slot is free for the next call
Return(t) ==
    /\ ~crashed
    /\ spc[t] = "return"
    /\ spc' = [spc EXCEPT ![t] = "idle"]
    /\ sargs' = [sargs EXCEPT ![t] = NoArgs]
    /\ found' = [found EXCEPT ![t] = FALSE]
    /\ sresp' = [sresp EXCEPT ![t] = NoAnswer]
    /\ sresult' = [sresult EXCEPT ![t] = NoResult]
    /\ sret' = [sret EXCEPT ![t] = NoReturn]
    /\ nBuilt' = [nBuilt EXCEPT ![t] = 0]
    /\ nPosts' = [nPosts EXCEPT ![t] = 0]
    /\ writes' = [writes EXCEPT ![t] = {}]
    /\ UNCHANGED <<cache, now, lastStore, rlocked, wlocked, crashed, sweepVars,
                   crawlVars, otherVars, compileVars>>

SearchNext ==
    \/ \E t \in CallSlots, a \in SearchArgs : Search(t, a)
    \/ \E t \in CallSlots : RLock(t)
    \/ \E t \in CallSlots : LookupEntry(t)
    \/ \E t \in CallSlots : DeleteExpired(t)
    \/ \E t \in CallSlots : ConcurrentMapFatal(t)
    \/ \E t \in CallSlots, ans \in EngineAnswers : EngineCall(t, ans)
    \/ \E t \in CallSlots : WLock(t)
    \/ \E t \in CallSlots : StoreResult(t)
    \/ \E t \in CallSlots : Return(t)
    \/ Tick

-----------------------------------------------------------------------------
(***************************************************************************)
(* cacheResult on a map around the sweep threshold.  The map holds the     *)
(* pages of one query: the first pages were stored at minute 0, the others *)
(* at minute 1.                                                            *)
(***************************************************************************)
\* most entries stored at minute 0
MaxOld == 5

Page(i) == << <<"a">>, 10 * (i - 1), 10 >>

PageResult == [Articles |-> <<1, 2>>, Total |-> 7]

\* the map after the pages 1..n were stored, the first `old` of them at minute 0
FilledCache(n, old) ==
    [k \in {KeyOf(Page(i)) : i \in 1..n} |->
        [Result |-> PageResult,
         Timestamp |-> IF k \in {KeyOf(Page(i)) : i \in 1..old} THEN 0 ELSE 1]]

SweepInit ==
    /\ \E n \in SweepThreshold..(SweepThreshold + 2), old \in 0..MaxOld :
           cache = FilledCache(n, old)
    /\ now = 1
    /\ lastStore = NoEntries
    /\ prevCache = NoEntries
    /\ prevKey = <<>>
    /\ prevNow = 0

\* one call cacheResult(key, result), with no other call running
SweepStore(a, result) ==
    /\ prevKey = <<>>
    /\ cache' = cacheResult(cache, KeyOf(a), result, now)
    /\ prevCache' = cache
    /\ prevKey' = KeyOf(a)
    /\ prevNow' = now
    /\ UNCHANGED <<now, lastStore, crawlVars, otherVars, compileVars, searchVars>>

\* the keys stored: a page stored at minute 0, one stored at minute 1, a new one
StoredPages == {Page(1), Page(SweepThreshold), Page(SweepThreshold + 3)}

SweepNext ==
    \/ \E a \in StoredPages : SweepStore(a, [Articles |-> <<2>>, Total |-> 1])
    \/ Tick

-----------------------------------------------------------------------------
(***************************************************************************)
(* The compiler called between stores and over time: buildEnhancedQuery is *)
(* called by every search that misses, whatever the cache holds.           *)
(***************************************************************************)
\* the arguments compiled: a plain query, a quoted phrase and a lone quote, with
\* each offset and limit
CompiledArgs ==
    {<<q, from, size>> : q \in {<<"a">>, <<Quote, "a", Quote>>, <<Quote>>},
                         from \in PageValues, size \in PageValues}

\* one call cacheResult(key, result) with no other call running
CacheStore(a, result) ==
    /\ cache' = cacheResult(cache, KeyOf(a), result, now)
    /\ lastStore' = [k \in DOMAIN lastStore \cup {KeyOf(a)} |->
                       IF k = KeyOf(a) THEN [Result |-> result, Timestamp |-> now]
                       ELSE lastStore[k]]
    /\ UNCHANGED <<now, sweepVars, crawlVars, otherVars, compileVars, searchVars>>

PurityNext ==
    \/ \E a \in CompiledArgs : Compile(a[1], a[2], a[3])
    \/ CacheStore(<< <<"a">>, 0, 10 >>, [Articles |-> <<1>>, Total |-> 1])
    \/ Tick

-----------------------------------------------------------------------------
(***************************************************************************)
(* The callers of searchElasticsearch: the REST /search handler and the    *)
(* Slack search of the gin server, and the page handler of web-server.go,  *)
(* one request at a time.                                                  *)
(* A Go int is 64 bits wide and its arithmetic wraps around: it is kept as *)
(* four 16-bit digits, lowest first, in two's complement.                  *)
(***************************************************************************)
\* one digit of an int: 2^16
Limb == 65536

\* the int with value n, for n of at most 31 bits
I64(n) ==
    IF n >= 0 THEN <<n % Limb, n \div Limb, 0, 0>>
    ELSE <<Limb - 1 - ((-n - 1) % Limb), Limb - 1 - ((-n - 1) \div Limb), Limb - 1, Limb - 1>>

\* math.MaxInt64
MaxInt64 == <<Limb - 1, Limb - 1, Limb - 1, (Limb \div 2) - 1>>

\* digit sums brought back into 64 bits: the carry out of the top digit is lost
Wrap64(d) ==
    LET s1 == d[1]
        s2 == d[2] + (s1 \div Limb)
        s3 == d[3] + (s2 \div Limb)
        s4 == d[4] + (s3 \div Limb)
    IN  <<s1 % Limb, s2 % Limb, s3 % Limb, s4 % Limb>>

\* x + y
Add64(x, y) == Wrap64([i \in 1..4 |-> x[i] + y[i]])

\* x * k for a small k
Mul64(x, k) == Wrap64([i \in 1..4 |-> x[i] * k])

\* x < 0
Neg64(x) == x[4] >= Limb \div 2

\* x > k for a small k >= 0
Gt64(x, k) == ~Neg64(x) /\ (x[4] # 0 \/ x[3] # 0 \/ x[2] # 0 \/ x[1] > k)

\* an int read as an unsigned number, divided by a small k: quotient and remainder
DivSmall(x, k) ==
    LET c4 == x[4]
        c3 == (c4 % k) * Limb + x[3]
        c2 == (c3 % k) * Limb + x[2]
        c1 == (c2 % k) * Limb + x[1]
    IN  [q |-> <<c1 \div k, c2 \div k, c3 \div k, c4 \div k>>, r |-> c1 % k]

\* -x
Negate64(x) == Add64([i \in 1..4 |-> Limb - 1 - x[i]], I64(1))

\* x / k for a small k > 0: the quotient is truncated towards zero
Div64(x, k) ==
    IF Neg64(x) THEN Negate64(DivSmall(Negate64(x), k).q) ELSE DivSmall(x, k).q

\* x <= y for ints read as unsigned numbers
ULe64(x, y) ==
    \/ x = y
    \/ \E i \in 1..4 : x[i] < y[i] /\ \A j \in (i + 1)..4 : x[j] = y[j]

\* x < y
Lt64(x, y) ==
    IF Neg64(x) # Neg64(y) THEN Neg64(x) ELSE x # y /\ ULe64(x, y)

\* a numeric parameter as sent: absent, not a number, or a number
Missing == [kind |-> "missing", v |-> I64(0)]

Bad == [kind |-> "bad", v |-> I64(0)]

Num(x) == [kind |-> "int", v |-> x]

NoReq == [handler |-> "none", q |-> <<>>, a |-> Missing, b |-> Missing]

NoCall == [made |-> FALSE, from |-> I64(0), size |-> I64(0)]

NoTriple == << <<>>, I64(0), I64(0) >>

NoRet == [err |-> "none", args |-> NoTriple, result |-> NoResult, fetchedFor |-> NoTriple]

\* a response without the pagination fields: none yet, or an error object
Plain(status) ==
    [status |-> status, Total |-> I64(0), CurrentPage |-> I64(0), TotalPages |-> I64(0),
     HasPrev |-> FALSE, HasNext |-> FALSE, PrevPage |-> I64(0), NextPage |-> I64(0),
     ResultsPerPage |-> I64(0)]

NoResp == Plain(0)

HandlersIdle ==
    /\ hReq = NoReq
    /\ hCall = NoCall
    /\ hFetched = NoEntries
    /\ hRet = NoRet
    /\ hResp = NoResp

\* the query strings a client sends
ClientQueries == {<<>>, <<"a">>, <<Quote, "a", Quote>>}

\* the numbers a client sends as from, size or page
ClientInts ==
    {I64(-1), I64(0), I64(1), I64(2), I64(50), I64(51), MaxInt64,
     <<52430, 52428, 52428, 3276>>}

ClientParams == {Missing, Bad} \cup {Num(x) : x \in ClientInts}

\* the value gin binds to an int field: 0 when the parameter is absent
Bound(pv) == IF pv.kind = "missing" THEN I64(0) ELSE pv.v

\* if req.Size <= 0 || req.Size > 50 { req.Size = 10 }
ClampSize(size) == IF ~Gt64(size, 0) \/ Gt64(size, 50) THEN I64(10) ELSE size

\* if req.From < 0 { req.From = 0 }
ClampFrom(from) == IF Neg64(from) THEN I64(0) ELSE from

\* searchResp.Hits.Total.Value of the engine's answer
Totals == {I64(0), I64(1), I64(10), I64(11), I64(51), MaxInt64}

\* what searchElasticsearch returns to the handler: an error, or a total
SearchOutcomes ==
    {[err |-> TRUE, total |-> I64(0)]} \cup {[err |-> FALSE, total |-> t] : t \in Totals}

\* the pagination fields searchHandler computes
RestResponse(from, size, total) ==
    LET quotient == Add64(Div64(from, size[1]), I64(1))
        page == IF ~Gt64(quotient, 0) THEN I64(1) ELSE quotient
        pages == Div64(Add64(Add64(total, size), I64(-1)), size[1])
        totalPages == IF pages = I64(0) THEN I64(1) ELSE pages
    IN  [status |-> 200, Total |-> total, CurrentPage |-> page, TotalPages |-> totalPages,
         HasPrev |-> Gt64(page, 1), HasNext |-> Lt64(page, totalPages),
         PrevPage |-> Add64(page, I64(-1)), NextPage |-> Add64(page, I64(1)),
         ResultsPerPage |-> size]

\* the gin searchHandler: 400 on a binding error or an empty query, else the
\* defaults, the call, and 500 on its error or the response
RestSearch(q, from, size, out) ==
    /\ hReq = NoReq
    /\ hReq' = [handler |-> "rest", q |-> q, a |-> from, b |-> size]
    /\ hCall' = IF from.kind = "bad" \/ size.kind = "bad" \/ q = <<>>
                THEN NoCall
                ELSE [made |-> TRUE, from |-> ClampFrom(Bound(from)),
                      size |-> ClampSize(Bound(size))]
    /\ hResp' = IF from.kind = "bad" \/ size.kind = "bad" \/ q = <<>> THEN Plain(400)
                ELSE IF out.err THEN Plain(500)
                ELSE RestResponse(ClampFrom(Bound(from)), ClampSize(Bound(size)), out.total)
    /\ UNCHANGED <<hFetched, hRet, coreVars, callerVars, scrapeVars, keyVars>>

\* page := 1; if pageStr != "" {
\*     if p, err := strconv.Atoi(pageStr); err == nil && p > 0 { page = p } }
PageOf(pv) == IF pv.kind # "int" \/ ~Gt64(pv.v, 0) THEN I64(1) ELSE pv.v

\* the searchHandler of web-server.go: from := (page - 1) * resultsPerPage
PageSearch(q, page) ==
    /\ hReq = NoReq
    /\ hReq' = [handler |-> "page", q |-> q, a |-> page, b |-> Missing]
    /\ hCall' = IF q = <<>>
                THEN NoCall
                ELSE [made |-> TRUE, from |-> Mul64(Add64(PageOf(page), I64(-1)), 10),
                      size |-> I64(10)]
    /\ UNCHANGED <<hFetched, hRet, hResp, coreVars, callerVars, scrapeVars, keyVars>>

\* performSlackSearch: searchElasticsearch(query, 0, 5); its callers answer an
\* empty query themselves
SlackSearch(q) ==
    /\ hReq = NoReq
    /\ q # <<>>
    /\ hReq' = [handler |-> "slack", q |-> q, a |-> Missing, b |-> Missing]
    /\ hCall' = [made |-> TRUE, from |-> I64(0), size |-> I64(5)]
    /\ UNCHANGED <<hFetched, hRet, hResp, coreVars, callerVars, scrapeVars, keyVars>>

\* the handler returns: the request and its locals are gone
HandlerDone ==
    /\ hReq # NoReq
    /\ hReq' = NoReq
    /\ hCall' = NoCall
    /\ hResp' = NoResp
    /\ UNCHANGED <<hFetched, hRet, coreVars, callerVars, scrapeVars, keyVars>>

HandlersNext ==
    \/ \E q \in ClientQueries, from \in ClientParams, size \in ClientParams,
          out \in SearchOutcomes : RestSearch(q, from, size, out)
    \/ \E q \in ClientQueries, page \in ClientParams : PageSearch(q, page)
    \/ \E q \in ClientQueries : SlackSearch(q)
    \/ HandlerDone

-----------------------------------------------------------------------------
(***************************************************************************)
(* The page handler of web-server.go with the search it calls, one request *)
(* at a time: the cache key is formatted from the 64-bit offset.           *)
(***************************************************************************)
\* the decimal digits of an int read as an unsigned number, none for zero
RECURSIVE UDigits(_)
UDigits(x) ==
    IF x = I64(0) THEN <<>>
    ELSE Append(UDigits(DivSmall(x, 10).q), DigitChar(DivSmall(x, 10).r))

\* the verb %d of fmt.Sprintf for an int
FormatInt64(x) ==
    IF x = I64(0) THEN <<"0">>
    ELSE IF Neg64(x) THEN <<"-">> \o UDigits(Negate64(x))
    ELSE UDigits(x)

\* fmt.Sprintf("%s-%d-%d", query, from, size)
KeyText64(query, from, size) ==
    query \o <<"-">> \o FormatInt64(from) \o <<"-">> \o FormatInt64(size)

\* the queries sent: a word, and the word followed by the separator of the key
PagedQueries == {<<"a">>, <<"a", "-">>}

\* the pages sent: 4611686018427387906 and 4611686018427387904
PagedPages == {Num(<<2, 0, 0, 16384>>), Num(<<0, 0, 0, 16384>>)}

\* from := (page - 1) * resultsPerPage, and resultsPerPage
PageArgs(q, page) == <<q, Mul64(Add64(PageOf(page), I64(-1)), 10), I64(10)>>

PageKey(q, page) ==
    Md5Hex(KeyText64(PageArgs(q, page)[1], PageArgs(q, page)[2], PageArgs(q, page)[3]))

\* a map with the value v under key k
Put(m, k, v) == [x \in DOMAIN m \cup {k} |-> IF x = k THEN v ELSE m[x]]

\* searchHandler of web-server.go and its call of searchElasticsearch: the lookup,
\* on a miss the request to the engine, and the store of the result
PageServe(q, page, ans) ==
    LET args == PageArgs(q, page)
        key == PageKey(q, page)
        look == CachedLookup(cache, key, now)
        looked == IF look.delete THEN RemoveKey(cache, key) ELSE cache
        result == [Articles |-> SourcesOf(Decode(ans.body).hits),
                   Total |-> Decode(ans.body).total]
    IN  /\ q # <<>>
        /\ hReq' = [handler |-> "page", q |-> q, a |-> page, b |-> Missing]
        /\ hCall' = [made |-> TRUE, from |-> args[2], size |-> args[3]]
        /\ IF look.found
             THEN /\ hRet' = [err |-> "nil", args |-> args, result |-> look.Result,
                              fetchedFor |-> hFetched[key]]
                  /\ UNCHANGED <<cache, lastStore, hFetched>>
             ELSE IF EngineError(ans) # "nil"
             THEN /\ hRet' = [err |-> EngineError(ans), args |-> args, result |-> NoResult,
                              fetchedFor |-> NoTriple]
                  /\ cache' = looked
                  /\ UNCHANGED <<lastStore, hFetched>>
             ELSE /\ hRet' = [err |-> "nil", args |-> args, result |-> result,
                              fetchedFor |-> args]
                  /\ cache' = cacheResult(looked, key, result, now)
                  /\ lastStore' = Put(lastStore, key, [Result |-> result, Timestamp |-> now])
                  /\ hFetched' = Put(hFetched, key, args)
        /\ UNCHANGED <<hResp, now, crawlVars, compileVars, sweepVars, searchVars, callerVars,
                       scrapeVars, keyVars>>

PagedNext ==
    \E q \in PagedQueries, page \in PagedPages, ans \in EngineAnswers : PageServe(q, page, ans)

-----------------------------------------------------------------------------
(***************************************************************************)
(* The fetch worker scrapeFullArticle.  The collector calls the title      *)
(* callback on every element matching the title selector, in document      *)
(* order, then the body callback and the time callback likewise; a page is *)
(* the texts these callbacks are given.                                    *)
(***************************************************************************)
\* most elements of a page that match one selector
MaxCandidates == 2

\* "How can we help?"
Placeholder == <<"H", "o", "w", " ", "c", "a", "n", " ", "w", "e", " ", "h", "e", "l", "p", "?">>

\* e.Text of an element matching the title selector
TitleTexts == {<<>>, <<" ">>, Placeholder, <<" ">> \o Placeholder \o <<" ">>, <<"R", "1">>}

\* e.DOM.Html() of an element matching the body selector
BodyHtmls == {<<>>, <<" ">>, <<"<", "p", ">">>}

\* e.Attr("datetime") of an element matching the time selector
Datetimes == {<<>>, <<"t", "1">>}

\* the request: answered, refused by Visit, or reported to the OnError callback
Faults == {"none", "visit", "scrape"}

RECURSIVE SeqsUpTo(_, _)
SeqsUpTo(S, n) ==
    IF n = 0 THEN {<<>>}
    ELSE LET shorter == SeqsUpTo(S, n - 1)
         IN  shorter \cup {Append(q, x) : q \in {y \in shorter : Len(y) = n - 1}, x \in S}

Pages ==
    [hasId : BOOLEAN, fault : Faults,
     titles : SeqsUpTo(TitleTexts, MaxCandidates),
     bodies : SeqsUpTo(BodyHtmls, MaxCandidates),
     times  : SeqsUpTo(Datetimes, MaxCandidates)]

\* strings.TrimSpace(s), for the blank as white space
TrimSpace(s) == Trim(s, " ")

\* the field after the callback `if field == "" { field = value }` ran on each value
RECURSIVE FirstKept(_)
FirstKept(values) ==
    IF values = <<>> THEN <<>>
    ELSE IF Head(values) # <<>> THEN Head(values)
    ELSE FirstKept(Tail(values))

\* if article.Title == "" { article.Title = strings.TrimSpace(e.Text) }
TitleOf(titles) == FirstKept([i \in 1..Len(titles) |-> TrimSpace(titles[i])])

\* if article.Body == "" { if html, err := e.DOM.Html(); err == nil { article.Body = html } }
BodyOf(bodies) == FirstKept(bodies)

\* if datetime != "" { if article.CreatedAt == "" { CreatedAt = datetime }; UpdatedAt = datetime }
CreatedOf(times) == FirstKept(times)

UpdatedOf(times) == FirstKept([i \in 1..Len(times) |-> times[Len(times) + 1 - i]])

\* time.Now().UTC().Format(time.RFC3339)
NowText == <<"n", "o", "w">>

NoArticle == [ID |-> <<>>, Title |-> <<>>, Body |-> <<>>, CreatedAt |-> <<>>, UpdatedAt |-> <<>>]

NotScraped == [err |-> "none", article |-> NoArticle]

\* the title test without the placeholder
BadTitle_EmptyOnly(title) == title = <<>>

\* if article.Title == "" || article.Title == "How can we help?"
BadTitle(title) == title = <<>> \/ title = Placeholder

\* the worker with the body test before the title test
scrapeFullArticle_BodyFirst(p) ==
    IF p.fault = "visit" THEN [err |-> "error visiting page", article |-> NoArticle]
    ELSE IF p.fault = "scrape" THEN [err |-> "scraping error", article |-> NoArticle]
    ELSE IF BodyOf(p.bodies) = <<>>
    THEN [err |-> "no content found on page", article |-> NoArticle]
    ELSE IF BadTitle(TitleOf(p.titles))
    THEN [err |-> "no meaningful title found on page", article |-> NoArticle]
    ELSE [err |-> "nil",
          article |-> [ID |-> IF p.hasId THEN <<"7">> ELSE <<>>,
                       Title |-> TitleOf(p.titles),
                       Body |-> BodyOf(p.bodies),
                       CreatedAt |-> IF CreatedOf(p.times) = <<>> THEN NowText
                                     ELSE CreatedOf(p.times),
                       UpdatedAt |-> IF UpdatedOf(p.times) = <<>> THEN NowText
                                     ELSE UpdatedOf(p.times)]]

\* what scrapeFullArticle returns for a page: (nil, err) or (&article, nil)
scrapeFullArticle(p) ==
    IF p.fault = "visit" THEN [err |-> "error visiting page", article |-> NoArticle]
    ELSE IF p.fault = "scrape" THEN [err |-> "scraping error", article |-> NoArticle]
    ELSE IF BadTitle(TitleOf(p.titles))
    THEN [err |-> "no meaningful title found on page", article |-> NoArticle]
    ELSE IF BodyOf(p.bodies) = <<>>
    THEN [err |-> "no content found on page", article |-> NoArticle]
    ELSE [err |-> "nil",
          article |-> [ID |-> IF p.hasId THEN <<"7">> ELSE <<>>,
                       Title |-> TitleOf(p.titles),
                       Body |-> BodyOf(p.bodies),
                       CreatedAt |-> IF CreatedOf(p.times) = <<>> THEN NowText
                                     ELSE CreatedOf(p.times),
                       UpdatedAt |-> IF UpdatedOf(p.times) = <<>> THEN NowText
                                     ELSE UpdatedOf(p.times)]]

ScrapeIdle ==
    /\ webPage = [hasId |-> TRUE, fault |-> "none", titles |-> <<>>, bodies |-> <<>>,
               times |-> <<>>]
    /\ scraped = NotScraped

ScrapeInit ==
    /\ webPage \in Pages
    /\ scraped = NotScraped

\* one call scrapeFullArticle(articleURL, timeout); a page that answered with a
\* fault gives the callbacks nothing
Scrape ==
    /\ scraped = NotScraped
    /\ scraped' = scrapeFullArticle(webPage)
    /\ UNCHANGED <<webPage, coreVars, handlerVars, callerVars, keyVars>>

ScrapeNext == Scrape

-----------------------------------------------------------------------------
(***************************************************************************)
(* The cache key of searchElasticsearch, formatted for the arguments of    *)
(* two searches.                                                           *)
(***************************************************************************)
\* longest query of a key
MaxKeyLen == 2

\* the characters of a query: a letter, the separator of the key and a digit
KeyChars == {"a", "-", "1"}

\* offsets and limits: negative, zero, one digit and two digits
KeyInts == {-1, 0, 1, 11}

KeyTriples ==
    {<<q, from, size>> : q \in SeqsUpTo(KeyChars, MaxKeyLen), from \in KeyInts,
                         size \in KeyInts}

KeysIdle ==
    /\ kA = << <<>>, 0, 0 >>
    /\ kB = << <<>>, 0, 0 >>
    /\ keyA = <<>>
    /\ keyB = <<>>

KeysInit ==
    /\ kA \in KeyTriples
    /\ kB \in KeyTriples
    /\ keyA = <<>>
    /\ keyB = <<>>

\* cacheKey := fmt.Sprintf("%s-%d-%d", query, from, size) in each of the two searches
FormatKeys ==
    /\ keyA = <<>>
    /\ keyA' = KeyText(kA[1], kA[2], kA[3])
    /\ keyB' = KeyText(kB[1], kB[2], kB[3])
    /\ UNCHANGED <<kA, kB, coreVars, handlerVars, callerVars, scrapeVars>>

KeysNext == FormatKeys

\* the parts modelled on their own, not started
OthersIdle == HandlersIdle /\ stopIssued = FALSE /\ ScrapeIdle /\ KeysIdle

-----------------------------------------------------------------------------
(***************************************************************************)
(* Specifications.                                                         *)
(***************************************************************************)
InitCrawl == CrawlInit /\ CompileIdle /\ CacheInit /\ CallsIdle /\ SweepIdle /\ OthersIdle

\* a list whose first link has no article id
InitCrawlMixed ==
    InitCrawl /\ articleURLs = [w \in Targets |-> w # 1]

SpecStop == InitCrawlMixed /\ [][StopNext]_vars

InitScrape ==
    /\ CrawlIdle /\ CompileIdle /\ CacheInit /\ CallsIdle /\ SweepIdle
    /\ HandlersIdle /\ stopIssued = FALSE /\ ScrapeInit /\ KeysIdle

InitKeys ==
    /\ CrawlIdle /\ CompileIdle /\ CacheInit /\ CallsIdle /\ SweepIdle
    /\ HandlersIdle /\ stopIssued = FALSE /\ ScrapeIdle /\ KeysInit

SpecKeys == InitKeys /\ [][KeysNext]_vars

SpecScrape == InitScrape /\ [][ScrapeNext]_vars

InitCompile == CrawlIdle /\ CompileIdle /\ CacheInit /\ CallsIdle /\ SweepIdle /\ OthersIdle

InitSearch == CrawlIdle /\ CompileIdle /\ CacheInit /\ CallsIdle /\ SweepIdle /\ OthersIdle

InitSweep == CrawlIdle /\ CompileIdle /\ CallsIdle /\ SweepInit /\ OthersIdle

SpecCrawl == InitCrawl /\ [][CrawlNext]_vars

\* the Go scheduler runs every goroutine that can run; a sleep ends and a request
\* ends at the latest with the client's timeout
SpecCrawlLive == InitCrawlMixed /\ [][CrawlNext]_vars /\ WF_vars(CrawlNext)

SpecCompile == InitCompile /\ [][CompileNext]_vars

SpecSearch == InitSearch /\ [][SearchNext]_vars

SpecSweep == InitSweep /\ [][SweepNext]_vars

InitPurity == CrawlIdle /\ CompileIdle /\ CacheInit /\ CallsIdle /\ SweepIdle /\ OthersIdle

SpecPurity == InitPurity /\ [][PurityNext]_vars

InitHandlers == CrawlIdle /\ CompileIdle /\ CacheInit /\ CallsIdle /\ SweepIdle /\ OthersIdle

SpecHandlers == InitHandlers /\ [][HandlersNext]_vars

InitPaged == CrawlIdle /\ CompileIdle /\ CacheInit /\ CallsIdle /\ SweepIdle /\ OthersIdle

SpecPaged == InitPaged /\ [][PagedNext]_vars

-----------------------------------------------------------------------------
(***************************************************************************)
(* C1: with concurrency limit maxConcurrency, in every reachable state the *)
(* number of workers between acquiring and releasing the admission gate    *)
(* (sleeping the courtesy delay, fetching, or storing the result) is at    *)
(* most maxConcurrency, however many per-target goroutines were spawned.   *)
(***************************************************************************)
C1_InFlightBounded ==
    /\ Cardinality(InFlight) <= maxConcurrency
    /\ Cardinality(InFlight) = semaphore

\* the gate is full while a further spawned worker is waiting to be admitted
C1_Witness ==
    /\ Cardinality(InFlight) = maxConcurrency
    /\ \E w \in Targets : wpc[w] = "acquire"
    /\ \E w \in InFlight : wpc[w] = "fetch"

-----------------------------------------------------------------------------
(***************************************************************************)
(* What the properties below read off a call of searchElasticsearch.       *)
(***************************************************************************)
MapWriters == {t \in CallSlots : spc[t] \in {"delete", "store"}}

\* the lookup of call t is decided in this step
LookupStep(t) == spc[t] = "lookup" /\ spc'[t] # "lookup"

Returned(t) == spc[t] = "return"

\* the engine gave no usable answer: no response, or a body that is not JSON
EngineFailed(t) ==
    \/ sresp[t].kind = "transport"
    \/ sresp[t].kind = "http" /\ sresp[t].body.kind = "html"

\* the engine is in outage: no response, or a non-success status
EngineOutage(t) ==
    \/ sresp[t].kind = "transport"
    \/ sresp[t].kind = "http" /\ sresp[t].status # 200

EngineSucceeded(t) ==
    sresp[t].kind = "http" /\ sresp[t].status = 200 /\ sresp[t].body.kind = "search"

Inserted(t) == \E w \in writes[t] : w.op = "insert"

(***************************************************************************)
(* C2: every mutation of the cache's map (the insert of a store, the       *)
(* removals of the sweep, the removal of an expired entry by a lookup) is  *)
(* made while holding exclusive access; none is made while only the shared *)
(* read lock is held.  The code deletes the expired entry in               *)
(* getCachedResult under RLock, so this fails.                             *)
(***************************************************************************)
C2_MutationsExclusive ==
    \A t \in MapWriters : wlocked = t /\ rlocked = {}

(***************************************************************************)
(* C3: a lookup of key k made no later than CacheTTL after the most recent *)
(* store(k, r) returns a hit whose result is r: the same articles in the   *)
(* same order and the same total.                                          *)
(***************************************************************************)
C3_RoundTrip ==
    [][\A t \in CallSlots :
        LET k == KeyOf(sargs[t])
        IN  (/\ LookupStep(t)
             /\ k \in DOMAIN lastStore
             /\ now - lastStore[k].Timestamp <= CacheTTL)
            => /\ found'[t]
               /\ spc'[t] = "return"
               /\ sret'[t] = [Articles |-> lastStore[k].Result.Articles,
                              Total |-> lastStore[k].Result.Total, err |-> "nil"]]_vars

\* a call has returned a stored two-article result from an entry that is exactly
\* CacheTTL old, while the other key holds another result
C3_Witness ==
    \E t \in CallSlots :
        LET k == KeyOf(sargs[t])
        IN  /\ Returned(t) /\ found[t]
            /\ k \in DOMAIN cache
            /\ now - cache[k].Timestamp = CacheTTL
            /\ sret[t].Articles = <<2, 1>>
            /\ \E k2 \in DOMAIN cache \ {k} : cache[k2].Result # cache[k].Result

(***************************************************************************)
(* C4: a lookup of key k made strictly more than CacheTTL after the most   *)
(* recent store to k is a miss, and when that lookup has returned the map  *)
(* holds no entry for k; the passage of time alone removes nothing: an     *)
(* entry leaves the map only in a step of a lookup's delete or of a store. *)
(***************************************************************************)
C4_ExpiredMiss ==
    [][/\ \A t \in CallSlots :
            LET k == KeyOf(sargs[t])
            IN  /\ (/\ LookupStep(t)
                    /\ k \in DOMAIN lastStore
                    /\ now - lastStore[k].Timestamp > CacheTTL)
                   => (~found'[t] /\ spc'[t] \in {"delete", "engine"})
                /\ (spc[t] \in {"lookup", "delete"} /\ spc'[t] = "engine")
                   => k \notin DOMAIN cache'
       /\ now' # now => cache' = cache
       /\ DOMAIN cache \ DOMAIN cache' # {}
            => \E t \in MapWriters : spc'[t] # spc[t]]_vars

\* a lookup found the entry of its key expired, removed it and returned a miss
C4_Witness ==
    \E t \in CallSlots :
        LET k == KeyOf(sargs[t])
        IN  /\ spc[t] = "engine"
            /\ \E w \in writes[t] : w.op = "delete" /\ w.age = CacheTTL + 1
            /\ k \in DOMAIN lastStore
            /\ k \notin DOMAIN cache

(***************************************************************************)
(* C6: when search finds an unexpired entry under its key it returns that  *)
(* entry's articles and total with no error, and during the call no query  *)
(* is compiled, no request is sent to the engine and no entry is written.  *)
(***************************************************************************)
C6_HitShortCircuits ==
    /\ [](\A t \in CallSlots :
            (Returned(t) /\ found[t])
            => /\ sret[t].err = "nil"
               /\ nBuilt[t] = 0
               /\ nPosts[t] = 0
               /\ writes[t] = {})
    /\ [][\A t \in CallSlots :
            LET k == KeyOf(sargs[t])
            IN  (/\ LookupStep(t)
                 /\ k \in DOMAIN cache
                 /\ now - cache[k].Timestamp <= CacheTTL)
                => /\ Returned(t)'
                   /\ found'[t]
                   /\ sret'[t].Articles = cache[k].Result.Articles
                   /\ sret'[t].Total = cache[k].Result.Total
                   /\ sret'[t].err = "nil"
                   /\ cache' = cache]_vars

\* a call was served from the cache
C6_Witness ==
    \E t \in CallSlots :
        /\ Returned(t) /\ found[t]
        /\ sret[t].Total = 7
        /\ KeyOf(sargs[t]) \in DOMAIN cache

(***************************************************************************)
(* C7: when search misses the cache and the engine answers successfully,   *)
(* exactly one engine request is made during the call, the articles are    *)
(* returned in the engine's hit order with the engine's total, and a       *)
(* lookup of the same key made right after the store returns exactly the   *)
(* (articles, total) returned to the caller.                               *)
(***************************************************************************)
C7_MissFetchesAndStores ==
    /\ [](\A t \in CallSlots :
            (Returned(t) /\ ~found[t] /\ EngineSucceeded(t))
            => /\ nPosts[t] = 1
               /\ sret[t].err = "nil"
               /\ Len(sret[t].Articles) = Len(sresp[t].body.hits)
               /\ \A i \in 1..Len(sret[t].Articles) :
                      sret[t].Articles[i] = sresp[t].body.hits[i].Source
               /\ sret[t].Total = sresp[t].body.total
               /\ Inserted(t))
    /\ [][\A t \in CallSlots :
            (spc[t] = "store" /\ Returned(t)')
            => CachedLookup(cache', KeyOf(sargs[t]), now') =
                   [found |-> TRUE,
                    Result |-> [Articles |-> sret'[t].Articles, Total |-> sret'[t].Total],
                    delete |-> FALSE]]_vars

\* a call missed, got two hits from the engine, stored and returned them
C7_Witness ==
    \E t \in CallSlots :
        /\ Returned(t) /\ ~found[t] /\ EngineSucceeded(t)
        /\ sret[t].Articles = <<2, 1>>
        /\ KeyOf(sargs[t]) \in DOMAIN cache
        /\ cache[KeyOf(sargs[t])].Result.Articles = <<2, 1>>

(***************************************************************************)
(* C8 as stated: when the engine call fails with a transport error or an   *)
(* undecodable body, search returns that error, the cache is left exactly  *)
(* as it was before the call, and no second engine request is made.  The   *)
(* lookup that opens the call removes an expired entry of its key, so the  *)
(* call can have changed the map.                                          *)
(***************************************************************************)
C8_CacheUntouchedOnError ==
    \A t \in CallSlots :
        (Returned(t) /\ EngineFailed(t))
        => /\ sret[t].err # "nil"
           /\ writes[t] = {}
           /\ nPosts[t] = 1

(***************************************************************************)
(* C8 amended: when the engine call fails with a transport error or an     *)
(* undecodable body, search returns that error, makes no second engine     *)
(* request and adds or replaces no cache entry; the only change the call   *)
(* can have made to the map is the removal, by its opening lookup, of an   *)
(* already expired entry of its own key.                                   *)
(***************************************************************************)
C8_NoStoreOnError ==
    \A t \in CallSlots :
        (Returned(t) /\ EngineFailed(t))
        => /\ sret[t].err = (IF sresp[t].kind = "transport" THEN "transport" ELSE "decode")
           /\ sret[t].Articles = <<>> /\ sret[t].Total = 0
           /\ nPosts[t] = 1
           /\ \A w \in writes[t] :
                  w.op = "delete" /\ w.key = KeyOf(sargs[t]) /\ w.age > CacheTTL

\* a call whose lookup removed an expired entry returned the engine's failure
C8_Witness ==
    \E t \in CallSlots :
        /\ Returned(t) /\ EngineFailed(t)
        /\ writes[t] # {}
        /\ sret[t].err = "decode"

(***************************************************************************)
(* C9: with no valid entry for the key and the engine in outage, a         *)
(* non-success HTTP status included, search returns an error: it never     *)
(* returns an empty or made-up (articles, total) as a success and never    *)
(* stores one.  The code does not look at the status, so a 503 with the    *)
(* engine's JSON error body is decoded to zero hits, stored and returned.  *)
(***************************************************************************)
C9_OutageIsError ==
    \A t \in CallSlots :
        (Returned(t) /\ ~found[t] /\ EngineOutage(t))
        => /\ sret[t].err # "nil"
           /\ ~Inserted(t)

-----------------------------------------------------------------------------
(***************************************************************************)
(* cacheResult on its own.                                                 *)
(***************************************************************************)
StoreDone == prevKey # <<>>

\* the entries of the map before the store that were older than CacheTTL then
OldBefore == {k \in DOMAIN prevCache : prevNow - prevCache[k].Timestamp > CacheTTL}

(***************************************************************************)
(* C5: a store made while the map holds more than SweepThreshold entries   *)
(* removes exactly the entries older than CacheTTL and none that is within *)
(* CacheTTL, and the new entry is in the map afterwards; with 1001 entries *)
(* of which 5 are expired the map holds 997 entries after the store of a   *)
(* new key; while every entry is fresh a store of a new key makes the map  *)
(* one larger, whatever its size.                                          *)
(***************************************************************************)
C5_SweepRemovesExactlyExpired ==
    (StoreDone /\ Cardinality(DOMAIN prevCache) > SweepThreshold)
    => /\ DOMAIN cache = (DOMAIN prevCache \ OldBefore) \cup {prevKey}
       /\ \A k \in DOMAIN cache \ {prevKey} : cache[k] = prevCache[k]
       /\ cache[prevKey].Timestamp = prevNow
       /\ (/\ Cardinality(DOMAIN prevCache) = 1001
           /\ Cardinality(OldBefore) = 5
           /\ prevKey \notin DOMAIN prevCache)
          => Cardinality(DOMAIN cache) = 997
       /\ (OldBefore = {} /\ prevKey \notin DOMAIN prevCache)
          => Cardinality(DOMAIN cache) = Cardinality(DOMAIN prevCache) + 1

\* the store of a new key into 1001 entries of which 5 had expired left 997
C5_Witness ==
    /\ StoreDone
    /\ Cardinality(DOMAIN prevCache) = 1001
    /\ Cardinality(OldBefore) = 5
    /\ \E k \in DOMAIN prevCache \ OldBefore : prevNow - prevCache[k].Timestamp = CacheTTL
    /\ prevKey \notin DOMAIN prevCache
    /\ Cardinality(DOMAIN cache) = 997

-----------------------------------------------------------------------------
(***************************************************************************)
(* The compiler on its own.                                                *)
(***************************************************************************)
Compiled == cRequest # NoRequest

\* the query is wrapped in a matching pair of double quotes
Wrapped(q) == Len(q) >= 2 /\ q[1] = Quote /\ q[Len(q)] = Quote

\* text is q without leading and trailing quote characters, at least one of each
QuotesStripped(q, text) ==
    \E i \in 1..Len(q), j \in 1..Len(q) :
        /\ i + j <= Len(q)
        /\ \A n \in 1..i : q[n] = Quote
        /\ \A n \in (Len(q) - j + 1)..Len(q) : q[n] = Quote
        /\ text = SubSeq(q, i + 1, Len(q) - j)

\* one exact-phrase match on title^3 and body^1, sorted by score then recency
StrictPhrase(req) ==
    /\ DOMAIN req.query = {"multi_match"}
    /\ req.query.multi_match.type = "phrase"
    /\ req.query.multi_match.fields = <<"title^3", "body^1">>
    /\ req.sort = << <<"_score", "desc">>, <<"updated_at", "desc">> >>

\* three strategies (phrase, fuzzy, phrase-prefix) on the text, minimum match 1
Blended(req, text) ==
    /\ DOMAIN req.query = {"function_score"}
    /\ LET b == req.query.function_score.query.bool
       IN  /\ Len(b.should) = 3
           /\ b.minimum_should_match = 1
           /\ \A i \in 1..3 : b.should[i].multi_match.query = text
           /\ b.should[1].multi_match.type = "phrase"
           /\ "fuzziness" \in DOMAIN b.should[2].multi_match
           /\ b.should[3].multi_match.type = "phrase_prefix"

(***************************************************************************)
(* C10: compile produces a strict phrase request with the quotes stripped  *)
(* from the phrase text when the query is wrapped in a matching pair of    *)
(* double quotes, and the blended three-strategy request carrying the      *)
(* query unchanged for every query that is not so wrapped.  The code takes *)
(* the one-character query " for a quoted phrase and compiles a phrase     *)
(* request with empty text.                                                *)
(***************************************************************************)
C10_PhraseDetection ==
    Compiled =>
        IF Wrapped(cQuery)
        THEN /\ StrictPhrase(cRequest)
             /\ QuotesStripped(cQuery, cRequest.query.multi_match.query)
        ELSE Blended(cRequest, cQuery)

-----------------------------------------------------------------------------
-----------------------------------------------------------------------------
(***************************************************************************)
(* C12: for every (query, offset, limit), zero, negative and very large    *)
(* values included, the pagination fields of the compiled request equal    *)
(* offset and limit exactly, in the strict phrase request and in the       *)
(* blended request; the compiler neither clamps nor defaults them.         *)
(***************************************************************************)
C12_PaginationVerbatim ==
    Compiled =>
        /\ cRequest.from = cFrom
        /\ cRequest.size = cSize
        /\ StrictPhrase(cRequest) \/ Blended(cRequest, cQuery)

\* a phrase request was compiled with the largest offset and a negative limit
C12_Witness ==
    /\ Compiled
    /\ StrictPhrase(cRequest)
    /\ cFrom = 2147483647 /\ cRequest.from = 2147483647
    /\ cSize = -1 /\ cRequest.size = -1

-----------------------------------------------------------------------------
(***************************************************************************)
(* C13: for every client-supplied from and size the REST /search handler   *)
(* calls search with 1 <= size <= 50 and from >= 0: a size that is         *)
(* missing, zero, negative or greater than 50 becomes 10 and a negative    *)
(* from becomes 0; every other caller of search (the page handler, the     *)
(* Slack search) also passes size in 1..50 and from >= 0.  The page        *)
(* handler multiplies the client's page number by 10 in a 64-bit int: for  *)
(* page 922337203685477582 the product wraps around to a negative from.    *)
(***************************************************************************)
C13_CallersClamp ==
    hCall.made =>
        /\ Gt64(hCall.size, 0) /\ ~Gt64(hCall.size, 50)
        /\ ~Neg64(hCall.from)
        /\ hReq.handler = "rest" =>
              /\ (hReq.b = Missing \/ ~Gt64(hReq.b.v, 0) \/ Gt64(hReq.b.v, 50))
                    => hCall.size = I64(10)
              /\ (hReq.b # Missing /\ Gt64(hReq.b.v, 0) /\ ~Gt64(hReq.b.v, 50))
                    => hCall.size = hReq.b.v
              /\ (hReq.a # Missing /\ Neg64(hReq.a.v)) => hCall.from = I64(0)
              /\ (hReq.a # Missing /\ ~Neg64(hReq.a.v)) => hCall.from = hReq.a.v

-----------------------------------------------------------------------------
(***************************************************************************)
(* The crawl of main.go, as its caller sees it.                            *)
(***************************************************************************)
\* the worker of target w has been through getArticleJSON
Fetched(w) == jsonData[w] # "none"

Succeeded(w) == jsonData[w] = "ok"

Failed(w) == jsonData[w] = "nil"

CrawlComplete == mainPc = "done"

(***************************************************************************)
(* C14: for every target of a crawl the number of fetch attempts made for  *)
(* it is at most maxAttempts + 1, and a target that has produced a Success *)
(* is never attempted again.                                               *)
(***************************************************************************)
C14_AttemptsBounded ==
    /\ [](\A w \in Targets : calls[w] <= maxAttempts + 1)
    /\ [][\A w \in Targets : Succeeded(w) => calls'[w] = calls[w]]_vars
    /\ [][\A w \in Targets : calls'[w] # calls[w]
              => (calls[w] = 0 /\ calls'[w] = 1 /\ ~Fetched(w))]_vars

\* the crawl is complete: one target succeeded at its only attempt, another
\* failed at its only attempt and was not tried again
C14_Witness ==
    /\ CrawlComplete
    /\ \E w \in Targets : Succeeded(w) /\ calls[w] = 1
    /\ \E w \in Targets : Failed(w) /\ requests[w] = 1 /\ calls[w] = maxAttempts + 1

(***************************************************************************)
(* C15: a fetch of a malformed target identifier (a URL from which no      *)
(* article id can be extracted) fails immediately on its first attempt     *)
(* with a terminal failure: no network request is made for it and it is    *)
(* never retried.                                                          *)
(***************************************************************************)
C15_MalformedIsTerminal ==
    /\ [](\A w \in Targets :
            ~articleURLs[w]
            => /\ requests[w] = 0
               /\ calls[w] <= 1
               /\ ~Succeeded(w)
               /\ \A i \in 1..Len(articles) : articles[i] # w
               /\ calls[w] = 1 => Failed(w))
    /\ [][\A w \in Targets :
            (~articleURLs[w] /\ Failed(w))
            => (Failed(w)' /\ calls'[w] = calls[w] /\ wpc'[w] # "fetch")]_vars

\* the crawl is complete: a malformed target failed at its one attempt without a
\* request, while a well-formed target was requested
C15_Witness ==
    /\ CrawlComplete
    /\ \E w \in Targets : ~articleURLs[w] /\ Failed(w) /\ calls[w] = 1 /\ requests[w] = 0
    /\ \E w \in Targets : articleURLs[w] /\ requests[w] = 1

(***************************************************************************)
(* C17: provided every fetch attempt terminates, a crawl over a finite     *)
(* target list eventually completes, it signals completion exactly once,   *)
(* and at the moment completion is signalled every target has reached a    *)
(* terminal outcome and no worker is still running or holding an admission *)
(* slot.                                                                   *)
(***************************************************************************)
C17_CompletesOnceWhenQuiescent ==
    /\ <>CrawlComplete
    /\ [](CrawlComplete
            => /\ \A w \in Targets : wpc[w] = "done" /\ Fetched(w) /\ calls[w] = 1
               /\ semaphore = 0
               /\ wg = 0
               /\ mu = NoOne
               /\ reported = Len(articles))
    /\ [][/\ reported' # reported => (reported = -1 /\ ~CrawlComplete /\ CrawlComplete')
          /\ CrawlComplete => CrawlComplete'
          /\ (~CrawlComplete /\ CrawlComplete') => reported' # -1]_vars

\* completion was signalled after some fetches succeeded and some failed
C17_Witness ==
    /\ CrawlComplete
    /\ reported = 2
    /\ \E w \in Targets : Failed(w) /\ wpc[w] = "done"
    /\ semaphore = 0

\* the records the crawl hands to its caller: one per appended article
CrawlOutcomes == {[target |-> articles[i], kind |-> "Success"] : i \in 1..Len(articles)}

\* main reads the collected list only after wg.Wait() has returned
CallerHas(w) == CrawlComplete /\ \E i \in 1..Len(articles) : articles[i] = w

\* the fetch of w was sent and failed: transport error, status or decoding
TransportFailed(w) == Failed(w) /\ requests[w] = 1

(***************************************************************************)
(* C16: in a crawl where every fetch of one target fails at transport      *)
(* level and the fetches of the others succeed, under every interleaving   *)
(* the crawl yields a Success for each target that succeeded and a         *)
(* terminal Failure outcome for the one that failed, and the succeeding    *)
(* targets are attempted as often as in a crawl where all succeed: once.   *)
(* main.go hands its caller the list of articles only: the failed target   *)
(* has no outcome at all.                                                  *)
(***************************************************************************)
C16_PartialFailureIsolated ==
    CrawlComplete =>
        \A w \in Targets :
            /\ Succeeded(w) => /\ [target |-> w, kind |-> "Success"] \in CrawlOutcomes
                               /\ calls[w] = 1
            /\ TransportFailed(w) => /\ [target |-> w, kind |-> "Failure"] \in CrawlOutcomes
                                     /\ [target |-> w, kind |-> "Success"] \notin CrawlOutcomes

(***************************************************************************)
(* C18: the crawl accepts a caller-issued stop signal: after the stop      *)
(* signal has been issued no new fetch attempt starts for any target,      *)
(* while attempts already in flight run to their outcome.  The crawl has   *)
(* no stop signal: workers that were still waiting for a slot when the     *)
(* caller asked to stop are admitted and fetch all the same.               *)
(***************************************************************************)
C18_StopPreventsNewAttempts ==
    [][stopIssued => \A w \in Targets : w \in InFlight' => w \in InFlight]_vars

(***************************************************************************)
(* C19: the outcome of a target is available to the crawl's caller as soon *)
(* as that target finishes, while other targets are still in flight; the   *)
(* caller never has to wait for the whole crawl before consuming the first *)
(* outcome.  main.go collects the articles in a list its caller reads only *)
(* after wg.Wait().                                                        *)
(***************************************************************************)
C19_OutcomesStreamed ==
    \A w \in Targets : (Succeeded(w) /\ wpc[w] = "done") => CallerHas(w)

-----------------------------------------------------------------------------
(***************************************************************************)
(* The fetch worker on its own.                                            *)
(***************************************************************************)
ScrapeReturned == scraped # NotScraped

ScrapeSucceeded == scraped.err = "nil"

\* a title or body candidate of the page could be taken as it is
GoodTitle(t) == TrimSpace(t) # <<>> /\ TrimSpace(t) # Placeholder

(***************************************************************************)
(* C20: every Article returned as a success by the fetch worker has a      *)
(* non-empty title that is not the placeholder "How can we help?" and a    *)
(* non-empty body; for every combination of scraped candidates that would  *)
(* violate either condition the worker returns an error and no Article.    *)
(***************************************************************************)
C20_ArticleValidated ==
    ScrapeReturned =>
        /\ ScrapeSucceeded
              => /\ scraped.article.Title # <<>>
                 /\ scraped.article.Title # Placeholder
                 /\ scraped.article.Body # <<>>
                 /\ \E i \in 1..Len(webPage.titles) :
                        scraped.article.Title = TrimSpace(webPage.titles[i])
                 /\ \E i \in 1..Len(webPage.bodies) : scraped.article.Body = webPage.bodies[i]
        /\ ~ScrapeSucceeded => scraped.article = NoArticle
        /\ (\A i \in 1..Len(webPage.titles) : ~GoodTitle(webPage.titles[i])) => ~ScrapeSucceeded
        /\ (\A i \in 1..Len(webPage.bodies) : webPage.bodies[i] = <<>>) => ~ScrapeSucceeded

\* a page whose first title element is empty and whose first body element is empty
\* was scraped into an article from the second ones
C20_Witness ==
    /\ ScrapeSucceeded
    /\ Len(webPage.titles) = 2 /\ TrimSpace(webPage.titles[1]) = <<>>
    /\ Len(webPage.bodies) = 2 /\ webPage.bodies[1] = <<>>
    /\ scraped.article.Title = <<"R", "1">>
    /\ scraped.article.CreatedAt = NowText

\* the page was answered and its callbacks ran
PageAnswered == ScrapeReturned /\ webPage.fault = "none"

NoTitleFailure == scraped.err = "no meaningful title found on page"

NoBodyFailure == scraped.err = "no content found on page"

\* the texts of the title elements that are not blank, in document order
RECURSIVE NonBlank(_)
NonBlank(titles) ==
    IF titles = <<>> THEN <<>>
    ELSE IF TrimSpace(Head(titles)) = <<>> THEN NonBlank(Tail(titles))
    ELSE <<TrimSpace(Head(titles))>> \o NonBlank(Tail(titles))

\* the first candidate that is neither empty nor the placeholder, <<>> if none
RECURSIVE FirstQualifying(_)
FirstQualifying(titles) ==
    IF titles = <<>> THEN <<>>
    ELSE IF GoodTitle(Head(titles)) THEN TrimSpace(Head(titles))
    ELSE FirstQualifying(Tail(titles))

(***************************************************************************)
(* C21: a fetch whose only title candidate is the placeholder fails with   *)
(* the no-title failure, never with the no-body failure and never with a   *)
(* success, whether or not a body was extracted: the title is tested       *)
(* before the body.                                                        *)
(***************************************************************************)
C21_PlaceholderIsNoTitle ==
    (/\ PageAnswered
     /\ NonBlank(webPage.titles) # <<>>
     /\ \A i \in 1..Len(NonBlank(webPage.titles)) : NonBlank(webPage.titles)[i] = Placeholder)
        => /\ NoTitleFailure
           /\ ~NoBodyFailure
           /\ ~ScrapeSucceeded
           /\ scraped.article = NoArticle

\* the placeholder was the only title of a page with no body, and the failure
\* is the one of the title
C21_Witness ==
    /\ PageAnswered
    /\ webPage.titles = <<Placeholder>>
    /\ BodyOf(webPage.bodies) = <<>>
    /\ NoTitleFailure

(***************************************************************************)
(* C22: for every ordered list of title candidates the selected title is   *)
(* the first candidate that is non-empty and not the placeholder: a page   *)
(* with a qualifying candidate and a body succeeds with that candidate,    *)
(* and the no-title failure is given only when no candidate qualifies.     *)
(***************************************************************************)
C22_FirstQualifyingTitle ==
    PageAnswered =>
        /\ (FirstQualifying(webPage.titles) # <<>> /\ BodyOf(webPage.bodies) # <<>>)
              => /\ ScrapeSucceeded
                 /\ scraped.article.Title = FirstQualifying(webPage.titles)
        /\ NoTitleFailure => FirstQualifying(webPage.titles) = <<>>

(***************************************************************************)
(* C23: a store made while the map holds SweepThreshold entries or fewer   *)
(* removes no entry, not even one older than CacheTTL: it only inserts or  *)
(* replaces the entry of the stored key; the sweep first runs on the store *)
(* that finds SweepThreshold + 1 entries or more.                          *)
(***************************************************************************)
C23_NoSweepAtThreshold ==
    StoreDone =>
        /\ Cardinality(DOMAIN prevCache) <= SweepThreshold
              => /\ DOMAIN cache = DOMAIN prevCache \cup {prevKey}
                 /\ \A k \in DOMAIN prevCache \ {prevKey} : cache[k] = prevCache[k]
                 /\ cache[prevKey] = [Result |-> cache[prevKey].Result, Timestamp |-> prevNow]
        /\ Cardinality(DOMAIN prevCache) >= SweepThreshold + 1
              => \A k \in OldBefore \ {prevKey} : k \notin DOMAIN cache

\* a new key was stored into SweepThreshold entries of which some had expired,
\* and they are all still there
C23_Witness ==
    /\ StoreDone
    /\ Cardinality(DOMAIN prevCache) = SweepThreshold
    /\ Cardinality(OldBefore) = MaxOld
    /\ prevKey \notin DOMAIN prevCache
    /\ OldBefore \subseteq DOMAIN cache
    /\ Cardinality(DOMAIN cache) = SweepThreshold + 1

-----------------------------------------------------------------------------
\* q without its first and its last character
OuterPairRemoved(q) == SubSeq(q, 2, Len(q) - 1)

(***************************************************************************)
(* C24: compile treats a query as quoted only when it has a matching pair  *)
(* of enclosing double quotes (length at least 2, first and last character *)
(* a double quote), and the phrase text is the query with exactly that one *)
(* outer pair removed, inner and doubled quotes kept; the query made of a  *)
(* single double quote is compiled as a blended request.                   *)
(***************************************************************************)
C24_OneOuterPairRemoved ==
    Compiled =>
        IF Wrapped(cQuery)
        THEN /\ StrictPhrase(cRequest)
             /\ cRequest.query.multi_match.query = OuterPairRemoved(cQuery)
        ELSE Blended(cRequest, cQuery)

-----------------------------------------------------------------------------
(***************************************************************************)
(* The cache key on its own.                                               *)
(***************************************************************************)
KeysFormatted == keyA # <<>>

NonNegative(a) == a[2] >= 0 /\ a[3] >= 0

(***************************************************************************)
(* C25: the text the cache key is the hash of, "query-offset-limit", is    *)
(* injective for offsets and limits that are not negative: two different   *)
(* triples never give the same text, even when the query holds "-" or      *)
(* digits; with a negative offset two different triples give the same      *)
(* text (query a with offset -1 and query a- with offset 1).               *)
(***************************************************************************)
C25_KeyTextInjective ==
    KeysFormatted =>
        /\ (NonNegative(kA) /\ NonNegative(kB) /\ kA # kB) => keyA # keyB
        /\ kA = kB => keyA = keyB
        /\ (kA = << <<"a">>, -1, 1 >> /\ kB = << <<"a", "-">>, 1, 1 >>) => keyA = keyB

\* the keys of query 1 at offset 1 and of query 1-1 at offset 11 were formatted:
\* the texts share their beginning and differ
C25_Witness ==
    /\ KeysFormatted
    /\ kA = << <<"1">>, 1, 11 >>
    /\ kB = << <<"1", "-">>, 11, 1 >>
    /\ keyA = <<"1", "-", "1", "-", "1", "1">>
    /\ keyB = <<"1", "-", "-", "1", "1", "-", "1">>

-----------------------------------------------------------------------------
\* the step in which call t leaves getCachedResult with a hit
HitStep(t) == spc[t] = "lookup" /\ found'[t]

\* the step in which call t leaves the lookup of an entry, hit or not
LookupDone(t) == spc[t] = "lookup" /\ spc'[t] # "lookup"

(***************************************************************************)
(* C26: a lookup that hits leaves the cache unchanged: it modifies neither *)
(* the result nor the stored-at timestamp of the entry, so every entry     *)
(* carries the time of the last store to its key however often it was     *)
(* read, and a lookup hits exactly while at most CacheTTL has passed since *)
(* that store; only a store to the same key restarts the TTL.              *)
(***************************************************************************)
C26_HitLeavesCacheUnchanged ==
    /\ [](\A k \in DOMAIN cache : cache[k] = lastStore[k])
    /\ [][\A t \in CallSlots :
            /\ HitStep(t) => /\ cache' = cache
                             /\ now - lastStore[KeyOf(sargs[t])].Timestamp <= CacheTTL
            /\ (/\ LookupDone(t)
                /\ KeyOf(sargs[t]) \in DOMAIN cache
                /\ now - lastStore[KeyOf(sargs[t])].Timestamp <= CacheTTL) => found'[t]
            /\ (/\ LookupDone(t)
                /\ KeyOf(sargs[t]) \in DOMAIN lastStore
                /\ now - lastStore[KeyOf(sargs[t])].Timestamp > CacheTTL) => ~found'[t]]_vars

\* both calls hit the entry that was stored CacheTTL minutes ago and is as stored
C26_Witness ==
    /\ \A t \in CallSlots : spc[t] = "return" /\ found[t] /\ sargs[t] = << <<"a">>, 0, 10 >>
    /\ KeyOf(<< <<"a">>, 0, 10 >>) \in DOMAIN cache
    /\ cache[KeyOf(<< <<"a">>, 0, 10 >>)] = lastStore[KeyOf(<< <<"a">>, 0, 10 >>)]
    /\ now - cache[KeyOf(<< <<"a">>, 0, 10 >>)].Timestamp = CacheTTL

-----------------------------------------------------------------------------
\* the handler was given a result by searchElasticsearch
SearchReturned == hRet.err = "nil"

(***************************************************************************)
(* C27: every cache entry stored under the key of (query, offset, limit)   *)
(* holds a result that the engine returned for the request compiled from   *)
(* that same triple, and no search call returns a result that was fetched  *)
(* for a different triple.                                                 *)
(***************************************************************************)
C27_ResultsPerTriple ==
    /\ \A q \in PagedQueries, page \in PagedPages :
           PageKey(q, page) \in DOMAIN cache => hFetched[PageKey(q, page)] = PageArgs(q, page)
    /\ SearchReturned => hRet.fetchedFor = hRet.args

-----------------------------------------------------------------------------
\* the workers that have released their slot
Released == {w \in Targets : wpc[w] \in {"wgdone", "done"}}

\* the step in which worker w takes a slot, and the one in which it gives it back
Acquires(w) == wpc[w] = "acquire" /\ wpc'[w] = "sleep"

Releases(w) == wpc[w] = "release" /\ wpc'[w] = "wgdone"

(***************************************************************************)
(* C28: every crawl worker that acquires an admission slot releases it     *)
(* exactly once, on every path (fetch success, transport failure,          *)
(* malformed target), and never releases a slot it did not acquire: the    *)
(* slots held are those of the workers between acquire and release, a slot *)
(* is given back only by a worker that holds one and that worker holds     *)
(* none afterwards; no worker waits forever for a slot: every worker is   *)
(* admitted and gives its slot back in the end (a worker gets to Released  *)
(* only through the gate); and a complete crawl holds zero slots.          *)
(***************************************************************************)
C28_SlotReleasedExactlyOnce ==
    /\ [](semaphore = Cardinality(InFlight))
    /\ [](CrawlComplete => semaphore = 0 /\ Released = Targets)
    /\ [][/\ semaphore' > semaphore
             => /\ semaphore' = semaphore + 1
                /\ \E w \in Targets : Acquires(w) /\ \A u \in Targets \ {w} : wpc'[u] = wpc[u]
          /\ semaphore' < semaphore
             => /\ semaphore' = semaphore - 1
                /\ \E w \in InFlight : Releases(w) /\ \A u \in Targets \ {w} : wpc'[u] = wpc[u]
          /\ \A w \in Targets :
                /\ Acquires(w) => semaphore' = semaphore + 1
                /\ Releases(w) => semaphore' = semaphore - 1
                /\ w \in Released => w \in Released'
                /\ (w \in Released' /\ w \notin Released) => (w \in InFlight /\ Fetched(w))]_vars
    /\ <>(Released = Targets)

\* the crawl is complete with no slot held: a malformed target, a failed request
\* and a success have each given their slot back
C28_Witness ==
    /\ CrawlComplete
    /\ semaphore = 0
    /\ Released = Targets
    /\ \E w \in Targets : ~articleURLs[w] /\ Failed(w)
    /\ \E w \in Targets : articleURLs[w] /\ Failed(w)
    /\ \E w \in Targets : Succeeded(w)

-----------------------------------------------------------------------------
\* the places of the collected list that hold the record of target w
RecordsOf(w) == {i \in 1..Len(articles) : articles[i] = w}

SuccessfulTargets == {w \in Targets : Succeeded(w)}

(***************************************************************************)
(* C29: under every interleaving of the crawl workers, when the crawl      *)
(* completes the collected list holds exactly one record for each target   *)
(* whose fetch succeeded and none for a target whose fetch failed: no      *)
(* record is lost or duplicated by concurrent appends, and the reported    *)
(* count is the number of successful fetches.                              *)
(***************************************************************************)
C29_CollectedExactlySuccesses ==
    /\ \A w \in Targets : Cardinality(RecordsOf(w)) <= 1
    /\ \A i \in 1..Len(articles) : Succeeded(articles[i])
    /\ \A w \in Targets : wpc[w] \in {"release", "wgdone", "done"} /\ Succeeded(w)
                              => Cardinality(RecordsOf(w)) = 1
    /\ CrawlComplete
         => /\ \A w \in SuccessfulTargets : Cardinality(RecordsOf(w)) = 1
            /\ \A w \in Targets \ SuccessfulTargets : Failed(w) /\ RecordsOf(w) = {}
            /\ Len(articles) = Cardinality(SuccessfulTargets)
            /\ reported = Cardinality(SuccessfulTargets)

\* the crawl is complete: three workers appended, not in the order of the list,
\* and the target that failed has no record
C29_Witness ==
    /\ CrawlComplete
    /\ Len(articles) = 3
    /\ articles[1] > articles[2]
    /\ reported = 3
    /\ \E w \in Targets : articleURLs[w] /\ Failed(w) /\ RecordsOf(w) = {}

-----------------------------------------------------------------------------
\* the REST handler answered 200 with the pagination fields
RestAnswered == hReq.handler = "rest" /\ hResp.status = 200

\* from div size + 1 and max(1, ceil(total / size)) as numbers, without wrap-around
PageNumber(from, size) == Wrap64([i \in 1..4 |-> DivSmall(from, size[1]).q[i] + I64(1)[i]])

PageCount(total, size) ==
    LET d == DivSmall(total, size[1])
        c == IF d.r = 0 THEN d.q ELSE Wrap64([i \in 1..4 |-> d.q[i] + I64(1)[i]])
    IN  IF c = I64(0) THEN I64(1) ELSE c

(***************************************************************************)
(* C30: in the REST /search response, for every from >= 0, size in 1..50   *)
(* and total >= 0: current_page = from div size + 1 >= 1, total_pages =    *)
(* max(1, ceil(total / size)), has_prev holds exactly when current_page >  *)
(* 1, has_next holds exactly when current_page < total_pages, and when     *)
(* has_next is false no result lies beyond the window: from + size >=      *)
(* total.                                                                  *)
(***************************************************************************)
C30_PaginationFields ==
    RestAnswered =>
        /\ ~Neg64(PageNumber(hCall.from, hCall.size))
        /\ hResp.CurrentPage = PageNumber(hCall.from, hCall.size)
        /\ Gt64(hResp.CurrentPage, 0)
        /\ hResp.TotalPages = PageCount(hResp.Total, hCall.size)
        /\ hResp.HasPrev <=> Gt64(hResp.CurrentPage, 1)
        /\ hResp.HasNext <=> Lt64(hResp.CurrentPage, hResp.TotalPages)
        /\ ~hResp.HasNext
              => ULe64(hResp.Total, Wrap64([i \in 1..4 |-> hCall.from[i] + hCall.size[i]]))

=============================================================================
